---- MODULE Spec2Model ----
(***************************************************************************)
(* Model of the Portnox Terraform provider's request/retry client          *)
(* (common/config.go), of the handlers of the                              *)
(* portnox_mac_account_addresses resource                                  *)
(* (internal/providers/resource_mac_account_addresses.go), of the          *)
(* handlers of the portnox_mac_account and portnox_mac_account_address     *)
(* resources and of the data source, of schema validation, of what the     *)
(* client and the provider write to the log, and of the backoff in 64-bit  *)
(* arithmetic.                                                             *)
(*                                                                         *)
(* Go strings whose content the code inspects (the error texts searched    *)
(* by strings.Contains) are sequences of one-character strings, so that    *)
(* formatting and substring search are computed, not assumed.              *)
(***************************************************************************)
EXTENDS Integers, Sequences, FiniteSets, TLC

VARIABLES
    cfg,          \* the common.Config shared by every request
    req,          \* arguments of the running MakeRequestWithRetry call
    rpc,          \* position in MakeRequestWithRetry: idle, loop, sleep, done
    attempt,      \* loop variable `attempt`
    backoff,      \* local `backoff`, in seconds
    responseBody, \* local `responseBody`
    err,          \* local `err`
    calls,        \* number of MakeRequest calls made by the running call
    sleeps,       \* durations (ms) passed to time.Sleep by the running call
    n429,         \* number of those calls answered with HTTP status 429
    lastExchange, \* the HTTP exchange seen by the latest MakeRequest call
    op,           \* resource handler being executed
    pc,           \* position inside that handler
    d,            \* schema.ResourceData: id, account_name, mac_addresses, old
    todo,         \* keys not yet visited by the running `range` loop
    requests,     \* MakeRequestWithRetry calls issued by the handler, in order
    diags,        \* diagnostics returned by the handler
    response,     \* body the running read handler got from MakeRequestWithRetry
    imported,     \* the []*schema.ResourceData returned by the import handler
    remote,       \* MacWhiteList held by the remote, keyed by Mac
    run,          \* how many times a failed Update has been run again
    logged,       \* the lines written to the log, in order
    peer,         \* locals of a second MakeRequestWithRetry call on cfg
    slept         \* the last two 64-bit durations passed to time.Sleep

retryVars == <<req, rpc, attempt, backoff, responseBody, err, calls, sleeps,
               n429, lastExchange>>
opVars == <<op, pc, d, todo, requests, diags>>
envVars == <<response, imported, remote, run>>
auxVars == <<logged, peer, slept>>
vars == <<cfg, req, rpc, attempt, backoff, responseBody, err, calls, sleeps,
          n429, lastExchange, op, pc, d, todo, requests, diags, response,
          imported, remote, run, logged, peer, slept>>

-----------------------------------------------------------------------------
(* Bounds of the model.                                                    *)

\* largest configured `retries`
MaxRetries == 5
\* largest configured `retry_interval`, seconds
MaxInterval == 2
\* longest mac_addresses list, declared or previously stored
MaxLen == 2

-----------------------------------------------------------------------------
(* Strings.                                                                *)

ErrPrefix ==
    <<"A", "P", "I", " ", "r", "e", "q", "u", "e", "s", "t", " ", "f", "a", "i",
    "l", "e", "d", " ", "w", "i", "t", "h", " ", "s", "t", "a", "t", "u", "s",
    ":", " ">>

Str429 ==
    <<"4", "2", "9">>

DefaultBaseURL ==
    <<"h", "t", "t", "p", "s", ":", "/", "/", "c", "l", "e", "a", "r", ".", "p",
    "o", "r", "t", "n", "o", "x", ".", "c", "o", "m", ":", "8", "0", "8", "1",
    "/", "C", "l", "o", "u", "d", "P", "o", "r", "t", "a", "l", "B", "a", "c",
    "k", "E", "n", "d">>

AltBaseURL ==
    <<"h", "t", "t", "p", "s", ":", "/", "/", "n", "a", "c", ".", "e", "x", "a",
    "m", "p", "l", "e", ":", "4", "2", "9", "0">>

SearchEndpoint ==
    <<"/", "a", "p", "i", "/", "m", "a", "c", "-", "b", "a", "s", "e", "d", "-",
    "a", "c", "c", "o", "u", "n", "t", "s", "/", "s", "e", "a", "r", "c", "h">>

AddEndpoint ==
    <<"/", "a", "p", "i", "/", "m", "a", "c", "-", "b", "a", "s", "e", "d", "-",
    "a", "c", "c", "o", "u", "n", "t", "s", "/", "m", "a", "c", "-", "w", "h",
    "i", "t", "e", "l", "i", "s", "t", "-", "a", "d", "d">>

RemoveEndpoint ==
    <<"/", "a", "p", "i", "/", "m", "a", "c", "-", "b", "a", "s", "e", "d", "-",
    "a", "c", "c", "o", "u", "n", "t", "s", "/", "m", "a", "c", "-", "w", "h",
    "i", "t", "e", "l", "i", "s", "t", "-", "r", "e", "m", "o", "v", "e">>

AccountEndpointPrefix ==
    <<"/", "a", "p", "i", "/", "m", "a", "c", "-", "b", "a", "s", "e", "d", "-",
    "a", "c", "c", "o", "u", "n", "t", "s", "/">>

AccountLab429 ==
    <<"l", "a", "b", "4", "2", "9">>

\* text of the account name "test", and the endpoint of its account GET
AccountTestText ==
    <<"t", "e", "s", "t">>
AccountTest ==
    AccountEndpointPrefix \o AccountTestText

\* "/api/mac-based-accounts", the endpoint of the account create
AccountsEndpoint == SubSeq(AccountEndpointPrefix, 1, Len(AccountEndpointPrefix) - 1)

\* mutant: the by-id requests made with PUT
MethodGETAsPut == <<"P", "U", "T">>

\* the HTTP methods the handlers pass to MakeRequestWithRetry
MethodPOST == <<"P", "O", "S", "T">>
MethodGET == <<"G", "E", "T">>
MethodDELETE == <<"D", "E", "L", "E", "T", "E">>

\* the Op of the *url.Error built by http.Client: the method, first letter
\* upper case and the rest lower case
UrlErrorOp(method) ==
    CASE method = MethodPOST -> <<"P", "o", "s", "t">>
      [] method = MethodGET -> <<"G", "e", "t">>
      [] method = MethodDELETE -> <<"D", "e", "l", "e", "t", "e">>

ConnRefused ==
    <<"d", "i", "a", "l", " ", "t", "c", "p", ":", " ", "c", "o", "n", "n", "e",
    "c", "t", ":", " ", "c", "o", "n", "n", "e", "c", "t", "i", "o", "n", " ",
    "r", "e", "f", "u", "s", "e", "d">>

ReasonOK ==
    <<"O", "K">>

ReasonBadRequest ==
    <<"B", "a", "d", " ", "R", "e", "q", "u", "e", "s", "t">>

ReasonTooManyRequests ==
    <<"T", "o", "o", " ", "M", "a", "n", "y", " ", "R", "e", "q", "u", "e", "s",
    "t", "s">>

ReasonInternalServerError ==
    <<"I", "n", "t", "e", "r", "n", "a", "l", " ", "S", "e", "r", "v", "e", "r",
    " ", "E", "r", "r", "o", "r">>

\* strings.Contains(s, sub)
Contains(s, sub) ==
    \E i \in 1..(Len(s) - Len(sub) + 1) : SubSeq(s, i, i + Len(sub) - 1) = sub

Digit(n) ==
    CASE n = 0 -> "0" [] n = 1 -> "1" [] n = 2 -> "2" [] n = 3 -> "3"
      [] n = 4 -> "4" [] n = 5 -> "5" [] n = 6 -> "6" [] n = 7 -> "7"
      [] n = 8 -> "8" [] n = 9 -> "9"

\* decimal rendering of a non-negative integer (the %d / status-code digits)
RECURSIVE Itoa(_)
Itoa(n) ==
    IF n < 10 THEN <<Digit(n)>> ELSE Itoa(n \div 10) \o <<Digit(n % 10)>>

-----------------------------------------------------------------------------
(* The HTTP Request Executor: Config.MakeRequest.                          *)

\* a nil []byte
NilBody == "nil"
\* the body of the remote's account-not-found answer
ErrorBody5357 == "{\"InternalErrorCode\":5357}"
\* response bodies the remote may send (opaque to the client)
Bodies == {"{}", "{\"Accounts\":[]}", ErrorBody5357}

\* a nil error, and an error with the given text
NilErr == [isNil |-> TRUE, msg |-> <<>>]
Error(msg) == [isNil |-> FALSE, msg |-> msg]

\* status codes the remote may answer with: both sides of the 400 threshold,
\* the rate-limit status and a server error
StatusCodes == {200, 399, 400, 429, 500}

\* reason phrase of the status line (resp.Status) for each status code
ReasonPhrase(code) ==
    CASE code = 200 -> ReasonOK
      [] code = 400 -> ReasonBadRequest
      [] code = 429 -> ReasonTooManyRequests
      [] code = 500 -> ReasonInternalServerError
      [] OTHER -> <<>>

\* resp.Status, e.g. "429 Too Many Requests"
Status(code) == Itoa(code) \o <<" ">> \o ReasonPhrase(code)

\* What client.Do can produce for one request: an HTTP response (status and
\* body), or no response at all (a transport error).
HTTPExchanges ==
    [kind : {"http"}, code : StatusCodes, body : Bodies, cause : {<<>>}]
TransportFailures ==
    [kind : {"transport"}, code : {0}, body : {NilBody}, cause : {ConnRefused}]
Exchanges == HTTPExchanges \cup TransportFailures

\* Text of the *url.Error returned by client.Do: Op "URL": cause
TransportErrorText(method, url, cause) ==
    UrlErrorOp(method) \o <<" ", "\"">> \o url \o <<"\"", ":", " ">> \o cause

\* mutant: the failure threshold moved from >= 400 to > 400
MakeRequestThresholdOff(c, method, endpoint, x) ==
    LET url == c.BaseURL \o endpoint IN
    IF x.kind = "transport"
    THEN [body |-> NilBody,
          err |-> Error(TransportErrorText(method, url, x.cause))]
    ELSE IF x.code > 400
    THEN [body |-> NilBody, err |-> Error(ErrPrefix \o Status(x.code))]
    ELSE [body |-> x.body, err |-> NilErr]

\* Config.MakeRequest: the ([]byte, error) returned for exchange x
MakeRequest(c, method, endpoint, x) ==
    LET url == c.BaseURL \o endpoint IN
    IF x.kind = "transport"
    THEN [body |-> NilBody,
          err |-> Error(TransportErrorText(method, url, x.cause))]
    ELSE IF x.code >= 400
    THEN [body |-> NilBody, err |-> Error(ErrPrefix \o Status(x.code))]
    ELSE [body |-> x.body, err |-> NilErr]

-----------------------------------------------------------------------------
(* The Retry Controller: Config.MakeRequestWithRetry.                      *)

\* rand.Intn(1000): the jitter is a whole number of milliseconds below this
JitterRange == 1000
\* representative jitters: smallest, middle, largest
Jitters == {0, JitterRange \div 2, JitterRange - 1}

\* mutant: the loop stops one attempt early
LoopCondOneShort(a, retries) == a < retries

\* the loop condition `attempt <= c.Retries`
LoopCond(a, retries) == a <= retries

\* mutant: every error is retried
IsRetryableAnyError(e) == ~e.isNil

\* strings.Contains(err.Error(), "429")
IsRetryable(e) == Contains(e.msg, Str429)

\* mutant: linear instead of exponential backoff
NextBackoffLinear(b) == b + 1

\* backoff *= 2
NextBackoff(b) == b * 2

\* time.Duration(backoff)*time.Second + jitter, in milliseconds
SleepMs(b, jitterMs) == b * 1000 + jitterMs

NoExchange == [kind |-> "none", code |-> 0, body |-> NilBody, cause |-> <<>>]
NoRequest == [method |-> <<>>, endpoint |-> <<>>]
\* no read handler has received a body; the remote is not observed
NoResponse == [wellFormed |-> FALSE, shape |-> "none", items |-> <<>>]
NoRemote == <<>>
\* no second call is running
NoPeer == [rpc |-> "none"]

\* one pass of the loop body up to the decision taken on the outcome
Attempt ==
    /\ rpc = "loop"
    /\ LoopCond(attempt, cfg.Retries)
    /\ \E x \in Exchanges :
         LET r == MakeRequest(cfg, req.method, req.endpoint, x) IN
         /\ responseBody' = r.body
         /\ err' = r.err
         /\ calls' = calls + 1
         /\ lastExchange' = x
         /\ n429' = IF x.kind = "http" /\ x.code = 429 THEN n429 + 1 ELSE n429
         /\ rpc' = IF r.err.isNil THEN "done"
                   ELSE IF IsRetryable(r.err) THEN "sleep"
                   ELSE "done"
    /\ UNCHANGED auxVars
    /\ UNCHANGED <<cfg, req, attempt, backoff, sleeps>>
    /\ UNCHANGED opVars
    /\ UNCHANGED envVars

\* the 429 branch: sleep backoff plus jitter, double the backoff, continue
Backoff ==
    /\ rpc = "sleep"
    /\ \E j \in Jitters : sleeps' = Append(sleeps, SleepMs(backoff, j))
    /\ backoff' = NextBackoff(backoff)
    /\ attempt' = attempt + 1
    /\ rpc' = "loop"
    /\ UNCHANGED auxVars
    /\ UNCHANGED <<cfg, req, responseBody, err, calls, n429, lastExchange>>
    /\ UNCHANGED opVars
    /\ UNCHANGED envVars

\* the loop condition fails: return responseBody, err as they stand
Exhausted ==
    /\ rpc = "loop"
    /\ ~LoopCond(attempt, cfg.Retries)
    /\ rpc' = "done"
    /\ UNCHANGED auxVars
    /\ UNCHANGED <<cfg, req, attempt, backoff, responseBody, err, calls,
                   sleeps, n429, lastExchange>>
    /\ UNCHANGED opVars
    /\ UNCHANGED envVars

\* Every ([]byte, error) MakeRequestWithRetry can return for one call, the
\* loop unrolled over all outcomes of each attempt (a: attempt, body/e: the
\* locals responseBody and err on entry to the iteration).
RECURSIVE RetryResultsFrom(_, _, _, _, _, _)
RetryResultsFrom(c, method, endpoint, a, body, e) ==
    IF ~LoopCond(a, c.Retries)
    THEN {[body |-> body, err |-> e]}
    ELSE UNION {
        LET r == MakeRequest(c, method, endpoint, x) IN
        IF r.err.isNil THEN {r}
        ELSE IF IsRetryable(r.err)
        THEN RetryResultsFrom(c, method, endpoint, a + 1, r.body, r.err)
        ELSE {r}
        : x \in Exchanges }

MakeRequestWithRetryResults(c, method, endpoint) ==
    RetryResultsFrom(c, method, endpoint, 1, NilBody, NilErr)

\* the same unrolling, keeping with each returned ([]byte, error) the
\* exchange of the last MakeRequest call
RECURSIVE RetryOutcomesFrom(_, _, _, _, _, _, _)
RetryOutcomesFrom(c, method, endpoint, a, body, e, last) ==
    IF ~LoopCond(a, c.Retries)
    THEN {[body |-> body, err |-> e, last |-> last]}
    ELSE UNION {
        LET r == MakeRequest(c, method, endpoint, x) IN
        IF r.err.isNil \/ ~IsRetryable(r.err)
        THEN {[body |-> r.body, err |-> r.err, last |-> x]}
        ELSE RetryOutcomesFrom(c, method, endpoint, a + 1, r.body, r.err, x)
        : x \in Exchanges }

MakeRequestWithRetryOutcomes(c, method, endpoint) ==
    RetryOutcomesFrom(c, method, endpoint, 1, NilBody, NilErr, NoExchange)

\* the provider configurations and requests explored for the retry controller
RetryConfigs ==
    [BaseURL : {DefaultBaseURL, AltBaseURL},
     Retries : (-1)..MaxRetries,
     RetryInterval : 1..MaxInterval]
RetryRequests ==
    {[method |-> MethodPOST, endpoint |-> SearchEndpoint],
     [method |-> MethodGET, endpoint |-> AccountEndpointPrefix \o AccountLab429]}

NoData ==
    [id |-> "", account_name |-> "", config |-> <<>>, mac_addresses |-> <<>>,
     old |-> <<>>]

\* a call of MakeRequestWithRetry has just been entered
InitRetry ==
    /\ cfg \in RetryConfigs
    /\ req \in RetryRequests
    /\ rpc = "loop"
    /\ attempt = 1
    /\ backoff = cfg.RetryInterval
    /\ responseBody = NilBody
    /\ err = NilErr
    /\ calls = 0
    /\ sleeps = <<>>
    /\ n429 = 0
    /\ lastExchange = NoExchange
    /\ op = "MakeRequestWithRetry"
    /\ pc = "call"
    /\ d = NoData
    /\ todo = {}
    /\ requests = <<>>
    /\ diags = NilErr
    /\ response = NoResponse
    /\ imported = <<>>
    /\ remote = NoRemote
    /\ run = 0
    /\ logged = <<>>
    /\ peer = NoPeer
    /\ slept = <<>>

NextRetry == Attempt \/ Backoff \/ Exhausted

SpecRetry == InitRetry /\ [][NextRetry]_vars

-----------------------------------------------------------------------------
(* The portnox_mac_account_addresses resource: data.                       *)

\* result of a failed .(string) type assertion (the value is not a string)
NilValue == "<nil>"
\* a key that a request payload does not carry
Absent == "<absent>"

AccountNames == {"test"}
\* resource types registered by the provider
AddressesResource == "portnox_mac_account_addresses"
AddressResource == "portnox_mac_account_address"
AccountResource == "portnox_mac_account"
AccountDataSource == "data.portnox_mac_account"
Macs == {"AA:BB:CC:DD:EE:01", "AA:BB:CC:DD:EE:02"}
\* description and expiration of an entry: two descriptions without an
\* expiration (the schema reader yields "" for an unset one) and one entry
\* that expires
Attributes ==
    {[description |-> "foo", expiration |-> ""],
     [description |-> "bar", expiration |-> ""],
     [description |-> "foo", expiration |-> "2025-12-31T23:59:59Z"]}

\* one element of the mac_addresses list, as d.Get returns it
Entries ==
    {[mac_address |-> m, description |-> a.description,
      expiration |-> a.expiration] : m \in Macs, a \in Attributes}
EntryLists == UNION {[1..n -> Entries] : n \in 0..MaxLen}

MacsOf(list) == {list[i].mac_address : i \in DOMAIN list}

\* the map built by `m[macMap["mac_address"].(string)] = macMap` over a list:
\* a later element with the same mac_address overwrites an earlier one
KeyedByMac(list) ==
    [m \in MacsOf(list) |->
        list[CHOOSE i \in DOMAIN list :
                /\ list[i].mac_address = m
                /\ \A j \in DOMAIN list : list[j].mac_address = m => j <= i]]

\* all orders in which a `range` over a map with key set S may visit it
Orders(S) ==
    {f \in [1..Cardinality(S) -> S] :
        \A i, j \in 1..Cardinality(S) : i # j => f[i] # f[j]}

\* v, ok := x.(string)
HasString(v) == v # NilValue

-----------------------------------------------------------------------------
(* resourceMacAccountAddressesUpdate.                                      *)

\* provider defaults for retries and retry_interval
DefaultRetries == 3
DefaultRetryInterval == 1
DefaultConfig ==
    [BaseURL |-> DefaultBaseURL, Retries |-> DefaultRetries,
     RetryInterval |-> DefaultRetryInterval]

\* the configurations and the requests of the resource handlers
HandlerConfigs == {DefaultConfig}
HandlerRequests ==
    {[method |-> MethodDELETE, endpoint |-> RemoveEndpoint],
     [method |-> MethodPOST, endpoint |-> AddEndpoint],
     [method |-> MethodPOST, endpoint |-> SearchEndpoint],
     [method |-> MethodGET, endpoint |-> AccountTest],
     [method |-> MethodPOST, endpoint |-> AccountsEndpoint],
     [method |-> MethodDELETE, endpoint |-> AccountTest]}

\* the errors (NilErr included) a handler can get back from
\* config.MakeRequestWithRetry; the handlers below discard the body
RetryErrorTable ==
    [c \in HandlerConfigs |->
        [r \in HandlerRequests |->
            {x.err : x \in MakeRequestWithRetryResults(c, r.method, r.endpoint)}]]
RetryErrors(method, endpoint) ==
    RetryErrorTable[cfg][[method |-> method, endpoint |-> endpoint]]

\* what resourceMacAccountRead can get back from its GET: the body, the
\* error and the last exchange behind them
AccountReadOutcomeTable ==
    [c \in HandlerConfigs |->
        MakeRequestWithRetryOutcomes(c, MethodGET, AccountTest)]
AccountReadOutcomes == AccountReadOutcomeTable[cfg]

currentMacs == KeyedByMac(d.old)
updatedMacs == KeyedByMac(d.mac_addresses)
originalMacOrder == [i \in DOMAIN d.mac_addresses |-> d.mac_addresses[i].mac_address]

\* mutant: the add is issued before the removal loops
PhaseOrderAddFirst == <<"add", "loop1", "loop2", "loop3">>

\* the order of the handler's four request blocks
PhaseOrder == <<"loop1", "loop2", "loop3", "add">>

\* mutant: a finished block is entered again
NextPhaseAgain(p) == p

NextPhase(p) ==
    LET i == CHOOSE k \in DOMAIN PhaseOrder : PhaseOrder[k] = p IN
    IF i < Len(PhaseOrder) THEN PhaseOrder[i + 1] ELSE "set"

\* mutant: every previously stored key is removed
RemoveAbsentCondAll(mac) == TRUE

\* mutant: no previously stored key is removed for being absent
RemoveAbsentCondNone(mac) == FALSE

\* `if _, exists := updatedMacs[mac]; !exists`
RemoveAbsentCond(mac) == mac \notin DOMAIN updatedMacs

\* mutant: the comparison inverted
DescriptionChangedInverted(cur, upd) == cur.description = upd.description

\* `currentMac["description"] != updatedMac["description"]`
DescriptionChanged(cur, upd) == cur.description # upd.description

\* mutant: no expiration remove for a key whose description changed too
ExpirationChangedAlone(cur, upd) ==
    /\ cur.expiration # upd.expiration
    /\ cur.description = upd.description

\* the expiration comparison of the third loop
ExpirationChanged(cur, upd) ==
    LET currentHasExpiration == HasString(cur.expiration)
        updatedHasExpiration == HasString(upd.expiration)
    IN  \/ currentHasExpiration # updatedHasExpiration
        \/ /\ currentHasExpiration
           /\ updatedHasExpiration
           /\ cur.expiration # upd.expiration

\* whether the loop at position p issues a remove for key mac
NeedsRemove(p, mac) ==
    CASE p = "loop1" -> RemoveAbsentCond(mac)
      [] p = "loop2" -> /\ mac \in DOMAIN updatedMacs
                        /\ DescriptionChanged(currentMacs[mac], updatedMacs[mac])
      [] p = "loop3" -> /\ mac \in DOMAIN updatedMacs
                        /\ ExpirationChanged(currentMacs[mac], updatedMacs[mac])
      [] OTHER -> FALSE

\* the MacWhiteList of the remove request issued by the loop at position p
RemoveWhiteList(p, mac) ==
    CASE p = "loop1" ->
            <<[Mac |-> mac, Description |-> Absent, Expiration |-> Absent]>>
      [] p = "loop2" ->
            <<[Mac |-> mac, Description |-> updatedMacs[mac].description,
               Expiration |-> Absent]>>
      [] p = "loop3" ->
            LET updatedExpiration == updatedMacs[mac].expiration IN
            <<[Mac |-> mac, Description |-> Absent,
               Expiration |->
                   IF HasString(updatedExpiration) /\ updatedExpiration # ""
                   THEN updatedExpiration ELSE Absent]>>

\* mutant: the add element always carries the expiration, empty or not
AddEntryAlwaysExpiration(e) ==
    [Mac |-> e.mac_address,
     Description |-> e.description,
     Expiration |-> e.expiration]

\* one element of the add payload
AddEntry(e) ==
    [Mac |-> e.mac_address,
     Description |-> e.description,
     Expiration |-> IF HasString(e.expiration) /\ e.expiration # ""
                    THEN e.expiration ELSE Absent]

\* mutant: only new or changed keys are sent in the add
AddKeysChangedOnly ==
    {m \in DOMAIN updatedMacs :
        \/ m \notin DOMAIN currentMacs
        \/ DescriptionChanged(currentMacs[m], updatedMacs[m])
        \/ ExpirationChanged(currentMacs[m], updatedMacs[m])}

\* the keys visited by `for _, macMap := range updatedMacs`
AddKeys == DOMAIN updatedMacs

\* the list written by d.Set("mac_addresses", orderedMacAddresses)
orderedMacAddresses ==
    [i \in DOMAIN originalMacOrder |-> updatedMacs[originalMacOrder[i]]]

Issued(method, endpoint, whitelist, e) ==
    [method |-> method, endpoint |-> endpoint,
     AccountName |-> d.account_name, MacWhiteList |-> whitelist, err |-> e]

\* the handler is entered: the three maps are built from d
UpdateEnter ==
    /\ op = "none"
    /\ pc = "idle"
    /\ d.resource = AddressesResource
    /\ d.id # ""
    /\ op' = "Update"
    /\ pc' = PhaseOrder[1]
    /\ todo' = DOMAIN currentMacs
    /\ requests' = <<>>
    /\ diags' = NilErr
    /\ UNCHANGED auxVars
    /\ UNCHANGED <<cfg, d>>
    /\ UNCHANGED retryVars
    /\ UNCHANGED envVars

\* mutant: the loop goes on after a failed remove
UpdateRemoveRequestGoOn ==
    /\ op = "Update"
    /\ pc \in {"loop1", "loop2", "loop3"}
    /\ \E mac \in todo :
         /\ NeedsRemove(pc, mac)
         /\ \E e \in RetryErrors(MethodDELETE, RemoveEndpoint) :
              /\ requests' = Append(requests,
                    Issued(MethodDELETE, RemoveEndpoint, RemoveWhiteList(pc, mac), e))
              /\ todo' = todo \ {mac}
              /\ pc' = pc
              /\ diags' = diags
    /\ UNCHANGED auxVars
    /\ UNCHANGED <<cfg, op, d>>
    /\ UNCHANGED retryVars

\* one iteration of a removal loop that issues a request
UpdateRemoveRequest ==
    /\ op = "Update"
    /\ pc \in {"loop1", "loop2", "loop3"}
    /\ \E mac \in todo :
         /\ NeedsRemove(pc, mac)
         /\ \E e \in RetryErrors(MethodDELETE, RemoveEndpoint) :
              /\ requests' = Append(requests,
                    Issued(MethodDELETE, RemoveEndpoint, RemoveWhiteList(pc, mac), e))
              /\ IF e.isNil
                 THEN /\ todo' = todo \ {mac}
                      /\ pc' = pc
                      /\ diags' = diags
                 ELSE /\ todo' = {}
                      /\ pc' = "done"
                      /\ diags' = e
    /\ UNCHANGED auxVars
    /\ UNCHANGED <<cfg, op, d>>
    /\ UNCHANGED retryVars

UpdateRemove ==
    /\ UpdateRemoveRequest
    /\ UNCHANGED envVars

\* a removal loop ends: no remaining key needs a request
UpdateNextLoop ==
    /\ op = "Update"
    /\ pc \in {"loop1", "loop2", "loop3"}
    /\ \A mac \in todo : ~NeedsRemove(pc, mac)
    /\ pc' = NextPhase(pc)
    /\ todo' = DOMAIN currentMacs
    /\ UNCHANGED auxVars
    /\ UNCHANGED <<cfg, op, d, requests, diags>>
    /\ UNCHANGED retryVars
    /\ UNCHANGED envVars

\* the batched add; the payload lists the map's entries in iteration order
UpdateAddRequest ==
    /\ op = "Update"
    /\ pc = "add"
    /\ \E order \in Orders(AddKeys) :
         \E e \in RetryErrors(MethodPOST, AddEndpoint) :
              /\ requests' = Append(requests,
                    Issued(MethodPOST, AddEndpoint,
                           [i \in DOMAIN order |-> AddEntry(updatedMacs[order[i]])],
                           e))
              /\ IF e.isNil
                 THEN /\ pc' = NextPhase(pc)
                      /\ diags' = diags
                 ELSE /\ pc' = "done"
                      /\ diags' = e
    /\ todo' = DOMAIN currentMacs
    /\ UNCHANGED auxVars
    /\ UNCHANGED <<cfg, op, d>>
    /\ UNCHANGED retryVars

UpdateAdd ==
    /\ UpdateAddRequest
    /\ UNCHANGED envVars

\* the state is rewritten in the configuration's order and the handler returns
UpdateFinish ==
    /\ op = "Update"
    /\ pc = "set"
    /\ d' = [d EXCEPT !.mac_addresses = orderedMacAddresses]
    /\ pc' = "done"
    /\ diags' = NilErr
    /\ UNCHANGED auxVars
    /\ UNCHANGED <<cfg, op, todo, requests>>
    /\ UNCHANGED retryVars
    /\ UNCHANGED envVars

\* Update is about to be called: old is the stored list, config the declared one
InitUpdate ==
    /\ cfg \in HandlerConfigs
    /\ req = NoRequest
    /\ rpc = "idle"
    /\ attempt = 0
    /\ backoff = 0
    /\ responseBody = NilBody
    /\ err = NilErr
    /\ calls = 0
    /\ sleeps = <<>>
    /\ n429 = 0
    /\ lastExchange = NoExchange
    /\ op = "none"
    /\ pc = "idle"
    /\ \E a \in AccountNames, old \in EntryLists, new \in EntryLists :
         d = [resource |-> AddressesResource, id |-> a, account_name |-> a,
              config |-> new, mac_addresses |-> new, old |-> old]
    /\ todo = {}
    /\ requests = <<>>
    /\ diags = NilErr
    /\ response = NoResponse
    /\ imported = <<>>
    /\ remote = NoRemote
    /\ run = 0
    /\ logged = <<>>
    /\ peer = NoPeer
    /\ slept = <<>>

NextUpdate ==
    UpdateEnter \/ UpdateRemove \/ UpdateNextLoop \/ UpdateAdd \/ UpdateFinish

SpecUpdate == InitUpdate /\ [][NextUpdate]_vars

-----------------------------------------------------------------------------
(* Responses of the read endpoints, after json.Unmarshal.                  *)

\* longest MacWhiteList a response carries
MaxRemote == 2

\* a mac_address the remote holds that no configuration declares
OutOfBandMac == "AA:BB:CC:DD:EE:03"
RemoteMacs == Macs \cup {OutOfBandMac}

\* Description and Expiration of a remote entry; NilValue stands for a JSON
\* null and for a missing key alike (both read as nil from the decoded map)
RemoteAttributes ==
    {[Description |-> "foo", Expiration |-> NilValue],
     [Description |-> "bar", Expiration |-> NilValue],
     [Description |-> "foo", Expiration |-> "2025-12-31T23:59:59Z"],
     [Description |-> "foo", Expiration |-> ""],
     [Description |-> NilValue, Expiration |-> NilValue]}

\* an item of the remote list whose Mac is the empty string
EmptyMacEntry == [Mac |-> "", Description |-> "foo", Expiration |-> NilValue]

RemoteEntries ==
    {[Mac |-> m, Description |-> a.Description, Expiration |-> a.Expiration] :
        m \in RemoteMacs, a \in RemoteAttributes}
        \cup {EmptyMacEntry}
RemoteLists == UNION {[1..n -> RemoteEntries] : n \in 0..MaxRemote}

\* the value of AgentlessOptions["MacWhiteList"]: a bare array, an object
\* holding the array under _items, an object without an _items array, or
\* a missing, null or string-typed field
WrappedShapes == {"array", "object"}
DegenerateShapes == {"object_no_items", "absent", "null", "string"}

\* a body that is not well-formed JSON
MalformedBody == [wellFormed |-> FALSE, shape |-> "malformed", items |-> <<>>]

\* bodies of a 2xx answer of the search and account endpoints: the account
\* exists and its AgentlessOptions is an object
AccountBodies ==
    [wellFormed : {TRUE}, shape : WrappedShapes, items : RemoteLists]
        \cup [wellFormed : {TRUE}, shape : DegenerateShapes, items : {<<>>}]
ResponseBodies == AccountBodies \cup {MalformedBody}

\* the error json.Unmarshal returns for malformed input
DecodeError ==
    Error(<<"i", "n", "v", "a", "l", "i", "d", " ", "c", "h", "a", "r", "a",
            "c", "t", "e", "r">>)
\* the *json.UnmarshalTypeError of a struct field given a value of another type
TypeError ==
    Error(<<"j", "s", "o", "n", ":", " ", "c", "a", "n", "n", "o", "t", " ",
            "u", "n", "m", "a", "r", "s", "h", "a", "l">>)

\* mutant: malformed input decodes without an error
UnmarshalLenient(body) == NilErr

\* mutant: a MacWhiteList that is not a list, an object or null is an error
UnmarshalTyped(body) ==
    IF body.wellFormed /\ body.shape # "string" THEN NilErr ELSE DecodeError

\* the error of json.Unmarshal(body, &map[string]interface{})
Unmarshal(body) == IF body.wellFormed THEN NilErr ELSE DecodeError

\* mutant: only the bare array is recognised
WhiteListItemsArrayOnly(body) ==
    IF body.shape = "array" THEN body.items ELSE <<>>

\* `macWhiteList`: the two type assertions on AgentlessOptions["MacWhiteList"]
\* and the empty-list fallbacks
WhiteListItems(body) ==
    IF body.shape = "array" THEN body.items
    ELSE IF body.shape = "object" THEN body.items
    ELSE <<>>

\* byte-wise order of the strings that are compared by the sorts
StringOrder ==
    <<"", "AA:BB:CC:DD:EE:01", "AA:BB:CC:DD:EE:02", "AA:BB:CC:DD:EE:03",
      "bar", "foo">>
StringRank(str) == CHOOSE i \in DOMAIN StringOrder : StringOrder[i] = str

\* the order of two sort keys, each a pair of string ranks
KeyLess(k1, k2) == k1[1] < k2[1] \/ (k1[1] = k2[1] /\ k1[2] < k2[2])

\* sort.SliceStable(list, less), keys[i] being the sort key of list[i]:
\* element i lands behind the elements that are less than it and behind
\* the earlier elements that compare equal to it
SliceStable(list, keys) ==
    LET rank(i) ==
            1 + Cardinality({j \in DOMAIN list \ {i} :
                    \/ KeyLess(keys[j], keys[i])
                    \/ (~KeyLess(keys[i], keys[j]) /\ j < i)})
    IN  [k \in DOMAIN list |-> list[CHOOSE i \in DOMAIN list : rank(i) = k]]

-----------------------------------------------------------------------------
(* resourceMacAccountAddressesRead.                                        *)

\* the entries of the search payload built from the stored list
ReadPayloadEntry(e) ==
    [Mac |-> e.mac_address,
     Description |-> e.description,
     Expiration |-> IF HasString(e.expiration) /\ e.expiration # ""
                    THEN e.expiration ELSE Absent]

\* mutant: the stored order is not consulted, the sorted order is kept
ReadOrderNone(list) == <<>>

\* `originalMacOrder` of Read: the mac_address of each stored element
ReadOrder(list) == [i \in DOMAIN list |-> list[i].mac_address]

\* mutant: no remote entry is filtered out
InStateMacsAny(list, mac) == TRUE

\* `stateMacs[macAddress]`
InStateMacs(list, mac) == mac \in MacsOf(list)

\* mutant: the Expiration of the remote item is copied whenever it is a string
ReadEntryCopyExpiration(x) ==
    [mac_address |-> x.Mac,
     description |-> x.Description,
     expiration |-> IF HasString(x.Expiration) THEN x.Expiration ELSE NilValue]

\* the entry Read builds from a remote item whose Description is a string
ReadEntry(x) ==
    [mac_address |-> x.Mac,
     description |-> x.Description,
     expiration |-> IF HasString(x.Expiration) /\ x.Expiration # ""
                    THEN x.Expiration ELSE NilValue]

\* the key of the sort in Read: mac_address, then description
ReadSortKey(e) == <<StringRank(e.mac_address), StringRank(e.description)>>

\* mutant: an entry found in the map is appended and left in the map
PickInOrderKeep(order, macAddressMap) ==
    LET found == SelectSeq(order, LAMBDA m : m \in DOMAIN macAddressMap)
    IN  [i \in DOMAIN found |-> macAddressMap[found[i]]]

\* the loop over originalMacOrder: an entry found in the map is appended
\* and deleted from the map
RECURSIVE PickInOrder(_, _)
PickInOrder(order, macAddressMap) ==
    IF order = <<>> THEN <<>>
    ELSE IF Head(order) \in DOMAIN macAddressMap
         THEN <<macAddressMap[Head(order)]>>
                \o PickInOrder(Tail(order),
                       [k \in DOMAIN macAddressMap \ {Head(order)} |->
                            macAddressMap[k]])
         ELSE PickInOrder(Tail(order), macAddressMap)

\* what Read does with a decoded body, given the stored list: a panic on
\* the single-value assertion `macMap["Description"].(string)`, or the list
\* handed to d.Set("mac_addresses", ...)
ReadResults(list, body) ==
    LET macWhiteList == WhiteListItems(body)
        kept == SelectSeq(macWhiteList, LAMBDA x : InStateMacs(list, x.Mac))
    IN  IF \E i \in DOMAIN kept : ~HasString(kept[i].Description)
        THEN {[status |-> "panic", mac_addresses |-> list]}
        ELSE
          LET entries == [i \in DOMAIN kept |-> ReadEntry(kept[i])]
              filteredMacAddresses ==
                  SliceStable(entries,
                      [i \in DOMAIN entries |-> ReadSortKey(entries[i])])
              macAddressMap == KeyedByMac(filteredMacAddresses)
              originalOrder == ReadOrder(list)
              inOrder == PickInOrder(originalOrder, macAddressMap)
              rest == DOMAIN macAddressMap
                          \ {originalOrder[i] : i \in DOMAIN originalOrder}
          IN  {[status |-> "ok",
                mac_addresses |->
                    inOrder \o [i \in DOMAIN o |-> macAddressMap[o[i]]]] :
                 o \in Orders(rest)}

\* the whole Read handler, for the bodies the remote may answer with
ReadFrom(bodies) ==
    /\ op = "none"
    /\ pc = "idle"
    /\ d.resource = AddressesResource
    /\ d.id # ""
    /\ d.account_name # ""
    /\ op' = "Read"
    /\ \E e \in RetryErrors(MethodPOST, SearchEndpoint) :
         /\ requests' =
              <<[method |-> MethodPOST, endpoint |-> SearchEndpoint,
                 AccountName |-> Absent,
                 MacWhiteList |->
                     [i \in DOMAIN d.mac_addresses |->
                          ReadPayloadEntry(d.mac_addresses[i])],
                 err |-> e]>>
         /\ IF ~e.isNil
            THEN /\ response' = NoResponse
                 /\ diags' = e
                 /\ pc' = "done"
                 /\ d' = d
            ELSE \E body \in bodies :
                   /\ response' = body
                   /\ IF ~Unmarshal(body).isNil
                      THEN /\ diags' = Unmarshal(body)
                           /\ pc' = "done"
                           /\ d' = d
                      ELSE \E out \in ReadResults(d.mac_addresses, body) :
                             /\ diags' = NilErr
                             /\ pc' = IF out.status = "panic"
                                      THEN "panic" ELSE "done"
                             /\ d' = [d EXCEPT
                                        !.mac_addresses = out.mac_addresses]
    /\ UNCHANGED auxVars
    /\ UNCHANGED <<cfg, todo, imported, remote, run>>
    /\ UNCHANGED retryVars

Read == ReadFrom(ResponseBodies)

-----------------------------------------------------------------------------
(* resourceMacAccountAddressesImport.                                      *)

\* the import identities: the account alone, the account with one listed
\* mac_address, with two (one surrounded by spaces), with one the remote may
\* not hold, and the account followed by a bare comma
ImportIds ==
    {"test",
     "test,AA:BB:CC:DD:EE:01",
     "test,AA:BB:CC:DD:EE:01; AA:BB:CC:DD:EE:03 ",
     "test,AA:BB:CC:DD:EE:03",
     "test,"}

\* the text of an import identity as the sequence of its pieces: names,
\* the separators "," and ";", and spaces
IdText(id) ==
    CASE id = "test" -> <<"test">>
      [] id = "test,AA:BB:CC:DD:EE:01" -> <<"test", ",", "AA:BB:CC:DD:EE:01">>
      [] id = "test,AA:BB:CC:DD:EE:01; AA:BB:CC:DD:EE:03 " ->
            <<"test", ",", "AA:BB:CC:DD:EE:01", ";", " ",
              "AA:BB:CC:DD:EE:03", " ">>
      [] id = "test,AA:BB:CC:DD:EE:03" -> <<"test", ",", "AA:BB:CC:DD:EE:03">>
      [] id = "test," -> <<"test", ",">>

\* strings.Split(text, sep): the pieces between the occurrences of sep
RECURSIVE Split(_, _)
Split(text, sep) ==
    IF \A i \in DOMAIN text : text[i] # sep
    THEN <<text>>
    ELSE LET k == CHOOSE i \in DOMAIN text :
                      /\ text[i] = sep
                      /\ \A j \in 1..(i - 1) : text[j] # sep
         IN  <<SubSeq(text, 1, k - 1)>>
                 \o Split(SubSeq(text, k + 1, Len(text)), sep)

\* strings.TrimSpace(text): leading and trailing spaces dropped
RECURSIVE TrimSpace(_)
TrimSpace(text) ==
    IF text = <<>> THEN text
    ELSE IF Head(text) = " " THEN TrimSpace(Tail(text))
    ELSE IF text[Len(text)] = " " THEN TrimSpace(SubSeq(text, 1, Len(text) - 1))
    ELSE text

\* the string made of the pieces of text
RECURSIVE Join(_)
Join(text) == IF text = <<>> THEN "" ELSE Head(text) \o Join(Tail(text))

\* mutant: the filter ignored
ImportPartsNoFilter(id) ==
    [accountName |-> Join(Split(IdText(id), ",")[1]), hasFilter |-> FALSE,
     macFilter |-> {}]

\* strings.Split(d.Id(), ",") and the filter built from the second part
ImportParts(id) ==
    LET importParts == Split(IdText(id), ",")
        hasFilter == Len(importParts) > 1 /\ importParts[2] # <<>>
        macList == IF hasFilter THEN Split(importParts[2], ";") ELSE <<>>
    IN  [accountName |-> Join(importParts[1]),
         hasFilter |-> hasFilter,
         macFilter |-> {Join(TrimSpace(macList[i])) : i \in DOMAIN macList}]

\* the entry Import builds from a remote item
ImportEntry(x) ==
    [mac_address |-> x.Mac,
     description |-> IF HasString(x.Description) THEN x.Description ELSE "",
     expiration |-> IF HasString(x.Expiration) /\ x.Expiration # ""
                    THEN x.Expiration ELSE Absent]

\* the key of the sort in Import: mac_address alone
ImportSortKey(e) == <<StringRank(e.mac_address), 0>>

ErrRetrieving ==
    <<"e", "r", "r", "o", "r", " ", "r", "e", "t", "r", "i", "e", "v", "i",
      "n", "g", " ", "M", "A", "C", " ", "a", "c", "c", "o", "u", "n", "t",
      " ">>
ErrParsing ==
    <<"e", "r", "r", "o", "r", " ", "p", "a", "r", "s", "i", "n", "g", " ",
      "A", "P", "I", " ", "r", "e", "s", "p", "o", "n", "s", "e", ":", " ">>
ErrNoneFound ==
    <<"n", "o", "n", "e", " ", "o", "f", " ", "t", "h", "e", " ", "s", "p",
      "e", "c", "i", "f", "i", "e", "d", " ", "M", "A", "C", " ", "a", "d",
      "d", "r", "e", "s", "s", "e", "s", " ", "w", "e", "r", "e", " ", "f",
      "o", "u", "n", "d", " ", "i", "n", " ", "a", "c", "c", "o", "u", "n",
      "t", " ">>

\* what Import does with a decoded body: the none-found error, or the
\* sorted list (handed to d.Set only when it is not empty)
ImportResult(id, body) ==
    LET parts == ImportParts(id)
        macWhiteList == WhiteListItems(body)
        kept == SelectSeq(macWhiteList,
                    LAMBDA x : /\ x.Mac # ""
                               /\ (parts.hasFilter => x.Mac \in parts.macFilter))
        macAddresses == [i \in DOMAIN kept |-> ImportEntry(kept[i])]
    IN  IF parts.hasFilter /\ Len(macAddresses) = 0
        THEN [err |-> Error(ErrNoneFound \o AccountTestText),
              mac_addresses |-> <<>>]
        ELSE [err |-> NilErr,
              mac_addresses |->
                  SliceStable(macAddresses,
                      [i \in DOMAIN macAddresses |->
                           ImportSortKey(macAddresses[i])])]

\* the whole Import handler; account_name is set before the request
Import ==
    /\ op = "none"
    /\ pc = "idle"
    /\ d.resource = AddressesResource
    /\ d.id \in ImportIds
    /\ d.account_name = ""
    /\ op' = "Import"
    /\ pc' = "done"
    /\ LET set == [d EXCEPT !.account_name = ImportParts(d.id).accountName] IN
       \E e \in RetryErrors(MethodGET, AccountTest) :
         /\ requests' =
              <<[method |-> MethodGET, endpoint |-> AccountTest,
                 AccountName |-> Absent, MacWhiteList |-> Absent, err |-> e]>>
         /\ IF ~e.isNil
            THEN /\ response' = NoResponse
                 /\ diags' = Error(ErrRetrieving \o AccountTestText
                                      \o <<":", " ">> \o e.msg)
                 /\ d' = set
                 /\ imported' = <<>>
            ELSE \E body \in ResponseBodies :
                   /\ response' = body
                   /\ IF ~Unmarshal(body).isNil
                      THEN /\ diags' = Error(ErrParsing \o Unmarshal(body).msg)
                           /\ d' = set
                           /\ imported' = <<>>
                      ELSE LET out == ImportResult(d.id, body) IN
                           /\ diags' = out.err
                           /\ d' = IF out.err.isNil /\ Len(out.mac_addresses) > 0
                                   THEN [set EXCEPT
                                           !.mac_addresses = out.mac_addresses]
                                   ELSE set
                           /\ imported' = IF out.err.isNil THEN <<d'>> ELSE <<>>
    /\ UNCHANGED auxVars
    /\ UNCHANGED <<cfg, todo, remote, run>>
    /\ UNCHANGED retryVars

-----------------------------------------------------------------------------
(* dataSourceMacAccountRead and resourceMacAccountRead.                    *)

\* a list attribute that no d.Set has written
UnsetList == [set |-> FALSE, list |-> <<>>]
SetList(list) == [set |-> TRUE, list |-> list]

\* the entry the data source builds from a remote item
DataSourceEntry(x) ==
    [mac_address |-> x.Mac,
     description |-> IF HasString(x.Description) THEN x.Description ELSE "",
     expiration |-> IF HasString(x.Expiration) /\ x.Expiration # ""
                    THEN x.Expiration ELSE ""]

\* mac_whitelist after the data source read: written only when the single
\* assertion `agentlessOptions["MacWhiteList"].([]interface{})` succeeds
DataSourceWhitelist(body, before) ==
    IF body.shape = "array"
    THEN LET kept == SelectSeq(body.items, LAMBDA x : x.Mac # "") IN
         SetList([i \in DOMAIN kept |-> DataSourceEntry(kept[i])])
    ELSE before

\* the whole data source read handler
DataSourceRead ==
    /\ op = "none"
    /\ pc = "idle"
    /\ d.resource = AccountDataSource
    /\ op' = "DataSourceRead"
    /\ pc' = "done"
    /\ \E e \in RetryErrors(MethodGET, AccountTest) :
         /\ requests' =
              <<[method |-> MethodGET, endpoint |-> AccountTest,
                 AccountName |-> Absent, MacWhiteList |-> Absent, err |-> e]>>
         /\ IF ~e.isNil
            THEN /\ response' = NoResponse
                 /\ diags' = e
                 /\ d' = d
            ELSE \E body \in ResponseBodies :
                   /\ response' = body
                   /\ diags' = Unmarshal(body)
                   /\ d' = IF ~Unmarshal(body).isNil THEN d
                           ELSE [d EXCEPT
                                   !.id = d.account_id,
                                   !.account_name = d.account_id,
                                   !.mac_whitelist =
                                       DataSourceWhitelist(body, @)]
    /\ UNCHANGED auxVars
    /\ UNCHANGED <<cfg, todo, imported, remote, run>>
    /\ UNCHANGED retryVars

\* json.Unmarshal into the account struct, whose MacWhiteList field is a
\* slice of structs with string fields: a null/missing field leaves it
\* empty, an object or a string is a type error, a null/missing
\* Description or Expiration leaves the zero value ""
AccountStruct(body) ==
    IF ~body.wellFormed THEN [err |-> DecodeError, MacWhiteList |-> <<>>]
    ELSE IF body.shape = "array"
    THEN [err |-> NilErr,
          MacWhiteList |->
            [i \in DOMAIN body.items |->
               [Mac |-> body.items[i].Mac,
                Description |-> IF HasString(body.items[i].Description)
                                THEN body.items[i].Description ELSE "",
                Expiration |-> IF HasString(body.items[i].Expiration)
                               THEN body.items[i].Expiration ELSE ""]]]
    ELSE IF body.shape \in {"absent", "null"}
    THEN [err |-> NilErr, MacWhiteList |-> <<>>]
    ELSE [err |-> TypeError, MacWhiteList |-> <<>>]

\* d.GetOk("mac_whitelist"): ok only for a non-empty list
GetOkList(attr) == attr.set /\ Len(attr.list) > 0

\* the error json.Unmarshal returns for empty input
EndOfInputError ==
    Error(<<"u", "n", "e", "x", "p", "e", "c", "t", "e", "d", " ", "e", "n",
            "d", " ", "o", "f", " ", "J", "S", "O", "N", " ", "i", "n", "p",
            "u", "t">>)

\* the InternalErrorCode that means "account not found"
AccountNotFoundCode == 5357

\* json.Unmarshal(responseBody, &errorResponse): nil bytes do not parse; a
\* body without the field leaves the zero value
ErrorResponse(body) ==
    IF body = NilBody
    THEN [parseErr |-> EndOfInputError, InternalErrorCode |-> 0]
    ELSE IF body = ErrorBody5357
    THEN [parseErr |-> NilErr, InternalErrorCode |-> AccountNotFoundCode]
    ELSE [parseErr |-> NilErr, InternalErrorCode |-> 0]

\* the warning diagnostic of the account-not-found branch
WarningNotFound ==
    [isNil |-> FALSE, severity |-> "Warning", msg |-> "Resource not found"]

\* the whole account read handler
AccountRead ==
    /\ op = "none"
    /\ pc = "idle"
    /\ d.resource = AccountResource
    /\ d.id # ""
    /\ op' = "AccountRead"
    /\ pc' = "done"
    /\ \E o \in AccountReadOutcomes :
         LET e == o.err
             errorResponse == ErrorResponse(o.body)
         IN
         /\ responseBody' = o.body
         /\ lastExchange' = o.last
         /\ requests' =
              <<[method |-> MethodGET, endpoint |-> AccountTest,
                 AccountName |-> Absent, MacWhiteList |-> Absent, err |-> e]>>
         /\ IF ~e.isNil
            THEN /\ response' = NoResponse
                 /\ IF /\ errorResponse.parseErr.isNil
                       /\ errorResponse.InternalErrorCode = AccountNotFoundCode
                    THEN /\ d' = [d EXCEPT !.id = ""]
                         /\ diags' = WarningNotFound
                    ELSE /\ diags' = e
                         /\ d' = d
            ELSE \E body \in ResponseBodies :
                   LET account == AccountStruct(body) IN
                   /\ response' = body
                   /\ diags' = account.err
                   /\ d' = IF ~account.err.isNil THEN d
                           ELSE [d EXCEPT
                                   !.mac_whitelist =
                                     IF GetOkList(@) /\ Len(account.MacWhiteList) > 0
                                     THEN SetList(
                                            [i \in DOMAIN account.MacWhiteList |->
                                               [mac |-> account.MacWhiteList[i].Mac,
                                                description |->
                                                  account.MacWhiteList[i].Description,
                                                expiration |->
                                                  account.MacWhiteList[i].Expiration]])
                                     ELSE UnsetList]
    /\ UNCHANGED auxVars
    /\ UNCHANGED <<cfg, todo, imported, remote, run>>
    /\ UNCHANGED <<req, rpc, attempt, backoff, err, calls, sleeps, n429>>

-----------------------------------------------------------------------------
(* resourceMacAccountAddressRead, the read of the single-address resource. *)

\* the one element of the MacWhiteList of the search payload
AddressReadEntry ==
    [Mac |-> d.mac_address, Description |-> d.description,
     Expiration |-> d.expiration]

\* the whole handler: one search request, whose answer is discarded, then
\* description, mac_address and expiration are set to the values read from d
AddressRead ==
    /\ op = "none"
    /\ pc = "idle"
    /\ d.resource = AddressResource
    /\ d.id # ""
    /\ op' = "AddressRead"
    /\ pc' = "done"
    /\ \E e \in RetryErrors(MethodPOST, SearchEndpoint) :
         /\ requests' =
              <<[method |-> MethodPOST, endpoint |-> SearchEndpoint,
                 AccountName |-> Absent,
                 MacWhiteList |-> <<AddressReadEntry>>, err |-> e]>>
         /\ diags' = e
         /\ d' = IF e.isNil
                 THEN [d EXCEPT !.description = d.description,
                                !.mac_address = d.mac_address,
                                !.expiration = d.expiration]
                 ELSE d
    /\ UNCHANGED auxVars
    /\ UNCHANGED <<cfg, todo>>
    /\ UNCHANGED retryVars
    /\ UNCHANGED envVars

\* the stored single-address resources
AddressData ==
    {[resource |-> AddressResource, id |-> a \o ":" \o e.mac_address,
      account_name |-> a, mac_address |-> e.mac_address,
      description |-> e.description, expiration |-> e.expiration] :
        a \in AccountNames, e \in Entries}

\* the resource data the read handlers are called with: an addresses
\* resource with a stored list, a fresh resource being imported, the data
\* source, an account resource with or without a configured whitelist, and
\* a single-address resource
ReadData ==
    AddressData \cup
    {[resource |-> AddressesResource, id |-> a, account_name |-> a,
      config |-> l, mac_addresses |-> l, old |-> <<>>] :
        a \in AccountNames, l \in EntryLists}
    \cup {[resource |-> AddressesResource, id |-> i, account_name |-> "",
           config |-> <<>>, mac_addresses |-> <<>>, old |-> <<>>] :
             i \in ImportIds}
    \cup {[resource |-> AccountDataSource, id |-> "", account_id |-> a,
           account_name |-> "", mac_whitelist |-> UnsetList] :
             a \in AccountNames}
    \cup {[resource |-> AccountResource, id |-> a, account_name |-> a,
           mac_whitelist |-> w] :
             a \in AccountNames,
             w \in {UnsetList,
                    SetList(<<[mac |-> "AA:BB:CC:DD:EE:01",
                               description |-> "foo", expiration |-> ""]>>)}}

InitRead ==
    /\ cfg \in HandlerConfigs
    /\ req = NoRequest
    /\ rpc = "idle"
    /\ attempt = 0
    /\ backoff = 0
    /\ responseBody = NilBody
    /\ err = NilErr
    /\ calls = 0
    /\ sleeps = <<>>
    /\ n429 = 0
    /\ lastExchange = NoExchange
    /\ op = "none"
    /\ pc = "idle"
    /\ d \in ReadData
    /\ todo = {}
    /\ requests = <<>>
    /\ diags = NilErr
    /\ response = NoResponse
    /\ imported = <<>>
    /\ remote = NoRemote
    /\ run = 0
    /\ logged = <<>>
    /\ peer = NoPeer
    /\ slept = <<>>

NextRead == Read \/ Import \/ DataSourceRead \/ AccountRead \/ AddressRead

SpecRead == InitRead /\ [][NextRead]_vars

-----------------------------------------------------------------------------
(* resourceMacAccountAddressesCreate and resourceMacAccountAddressesDelete. *)

\* the whole Create handler: one add of the declared list in declared
\* order, then the identity and the list are stored
Create ==
    /\ op = "none"
    /\ pc = "idle"
    /\ d.resource = AddressesResource
    /\ d.id = ""
    /\ d.account_name # ""
    /\ op' = "Create"
    /\ pc' = "done"
    /\ \E e \in RetryErrors(MethodPOST, AddEndpoint) :
         /\ requests' =
              <<Issued(MethodPOST, AddEndpoint,
                       [i \in DOMAIN d.mac_addresses |->
                            AddEntry(d.mac_addresses[i])], e)>>
         /\ diags' = e
         /\ d' = IF e.isNil THEN [d EXCEPT !.id = d.account_name] ELSE d
    /\ UNCHANGED auxVars
    /\ UNCHANGED <<cfg, todo>>
    /\ UNCHANGED retryVars
    /\ UNCHANGED envVars

\* a Delete element that also carried the stored description and expiration
DeleteEntryWithValues(e) ==
    [Mac |-> e.mac_address, Description |-> e.description,
     Expiration |-> e.expiration]

\* one element of the Delete payload
DeleteEntry(e) ==
    [Mac |-> e.mac_address, Description |-> Absent, Expiration |-> Absent]

\* the whole Delete handler: one remove naming every stored mac_address,
\* then the identity is cleared
Delete ==
    /\ op = "none"
    /\ pc = "idle"
    /\ d.resource = AddressesResource
    /\ d.id # ""
    /\ d.account_name # ""
    /\ op' = "Delete"
    /\ pc' = "done"
    /\ \E e \in RetryErrors(MethodDELETE, RemoveEndpoint) :
         /\ requests' =
              <<Issued(MethodDELETE, RemoveEndpoint,
                       [i \in DOMAIN d.mac_addresses |->
                            DeleteEntry(d.mac_addresses[i])], e)>>
         /\ diags' = e
         /\ d' = IF e.isNil THEN [d EXCEPT !.id = ""] ELSE d
    /\ UNCHANGED auxVars
    /\ UNCHANGED <<cfg, todo>>
    /\ UNCHANGED retryVars
    /\ UNCHANGED envVars

\* the entry the remote holds for a stored entry
RemoteOf(e) ==
    [Mac |-> e.mac_address,
     Description |-> e.description,
     Expiration |-> IF e.expiration = "" THEN NilValue ELSE e.expiration]

\* the answers of a remote that holds exactly the stored entries: in any
\* order and in either shape
EchoBodies(list) ==
    LET held == {RemoteOf(list[i]) : i \in DOMAIN list} IN
    [wellFormed : {TRUE}, shape : WrappedShapes, items : Orders(held)]

\* Read of a resource whose entries the remote still holds
ReadBack == ReadFrom(EchoBodies(d.mac_addresses))

\* a handler of the addresses resource is about to be called: Create on a
\* new resource (no identity, no stored list), the others on a stored one
InitLifecycle ==
    /\ cfg \in HandlerConfigs
    /\ req = NoRequest
    /\ rpc = "idle"
    /\ attempt = 0
    /\ backoff = 0
    /\ responseBody = NilBody
    /\ err = NilErr
    /\ calls = 0
    /\ sleeps = <<>>
    /\ n429 = 0
    /\ lastExchange = NoExchange
    /\ op = "none"
    /\ pc = "idle"
    /\ \E a \in AccountNames, old \in EntryLists, new \in EntryLists :
         \/ d = [resource |-> AddressesResource, id |-> a, account_name |-> a,
                 config |-> new, mac_addresses |-> new, old |-> old]
         \/ /\ old = <<>>
            /\ d = [resource |-> AddressesResource, id |-> "",
                    account_name |-> a, config |-> new,
                    mac_addresses |-> new, old |-> old]
    /\ todo = {}
    /\ requests = <<>>
    /\ diags = NilErr
    /\ response = NoResponse
    /\ imported = <<>>
    /\ remote = NoRemote
    /\ run = 0
    /\ logged = <<>>
    /\ peer = NoPeer
    /\ slept = <<>>

NextLifecycle ==
    \/ Create
    \/ ReadBack
    \/ UpdateEnter
    \/ UpdateRemove
    \/ UpdateNextLoop
    \/ UpdateAdd
    \/ UpdateFinish
    \/ Delete

SpecLifecycle == InitLifecycle /\ [][NextLifecycle]_vars

-----------------------------------------------------------------------------
(* Update against a remote whitelist keyed by Mac, re-run after a failure. *)

\* how many times a failed Update is run again
MaxReruns == 1

\* the whitelist of a remote that holds exactly the given stored list
RemoteHolding(list) ==
    [m \in MacsOf(list) |-> AddEntry(KeyedByMac(list)[m])]

\* mac-whitelist-remove: the entries with the listed Macs are deleted
RemoveEffect(held, whitelist) ==
    [m \in DOMAIN held \ {whitelist[i].Mac : i \in DOMAIN whitelist} |->
        held[m]]

\* mac-whitelist-add: the listed entries are inserted or replaced by Mac
AddEffect(held, whitelist) ==
    LET listed == {whitelist[i].Mac : i \in DOMAIN whitelist} IN
    [m \in DOMAIN held \cup listed |->
        IF m \in listed
        THEN whitelist[CHOOSE i \in DOMAIN whitelist : whitelist[i].Mac = m]
        ELSE held[m]]

\* the effect of the request just issued, given the whitelist the remote
\* holds once it is applied: a request that returned without an error was
\* applied, one that returned an error may or may not have been
RemoteEffect(applied) ==
    \E took \in BOOLEAN :
        /\ requests'[Len(requests')].err.isNil => took
        /\ remote' = IF took THEN applied ELSE remote

ConvergeRemove ==
    /\ UpdateRemoveRequest
    /\ RemoteEffect(RemoveEffect(remote, requests'[Len(requests')].MacWhiteList))
    /\ UNCHANGED <<response, imported, run>>

ConvergeAdd ==
    /\ UpdateAddRequest
    /\ RemoteEffect(AddEffect(remote, requests'[Len(requests')].MacWhiteList))
    /\ UNCHANGED <<response, imported, run>>

\* the failed Update is called again with the same old and new lists
UpdateAgain ==
    /\ op = "Update"
    /\ pc = "done"
    /\ ~diags.isNil
    /\ run < MaxReruns
    /\ run' = run + 1
    /\ pc' = PhaseOrder[1]
    /\ todo' = DOMAIN currentMacs
    /\ diags' = NilErr
    /\ UNCHANGED auxVars
    /\ UNCHANGED <<cfg, op, d, requests, response, imported, remote>>
    /\ UNCHANGED retryVars

InitConverge ==
    /\ cfg \in HandlerConfigs
    /\ req = NoRequest
    /\ rpc = "idle"
    /\ attempt = 0
    /\ backoff = 0
    /\ responseBody = NilBody
    /\ err = NilErr
    /\ calls = 0
    /\ sleeps = <<>>
    /\ n429 = 0
    /\ lastExchange = NoExchange
    /\ op = "none"
    /\ pc = "idle"
    /\ \E a \in AccountNames, old \in EntryLists, new \in EntryLists :
         d = [resource |-> AddressesResource, id |-> a, account_name |-> a,
              config |-> new, mac_addresses |-> new, old |-> old]
    /\ todo = {}
    /\ requests = <<>>
    /\ diags = NilErr
    /\ response = NoResponse
    /\ imported = <<>>
    /\ remote = RemoteHolding(d.old)
    /\ run = 0
    /\ logged = <<>>
    /\ peer = NoPeer
    /\ slept = <<>>

NextConverge ==
    \/ UpdateEnter
    \/ ConvergeRemove
    \/ UpdateNextLoop
    \/ ConvergeAdd
    \/ UpdateFinish
    \/ UpdateAgain

SpecConverge == InitConverge /\ [][NextConverge]_vars

-----------------------------------------------------------------------------
(* Properties of the retry controller and the executor, under SpecRetry.   *)

RECURSIVE Pow2(_)
Pow2(n) == IF n = 0 THEN 1 ELSE 2 * Pow2(n - 1)

RECURSIVE SumSeq(_)
SumSeq(s) == IF s = <<>> THEN 0 ELSE s[1] + SumSeq(Tail(s))

Succeeded200(x) == x.kind = "http" /\ x.code < 400
Is429(x) == x.kind = "http" /\ x.code = 429
Returned == rpc = "done" /\ ~ENABLED NextRetry

\* C1: when the executor answered HTTP 429 on the first k attempts and then
\* succeeded, the call has returned after exactly k+1 executor calls (k < N),
\* nothing more happens after the success, the i-th sleep lasted
\* b*2^(i-1) seconds plus a jitter of 0..999 ms (so at least b*(2^k - 1)
\* seconds were slept), and the result is the body of the successful
\* exchange with a nil error.
C1_BackoffThenSuccess ==
    (Succeeded200(lastExchange) /\ n429 = calls - 1) =>
        /\ Returned
        /\ calls = attempt
        /\ calls <= cfg.Retries
        /\ Len(sleeps) = calls - 1
        /\ \A i \in DOMAIN sleeps :
              sleeps[i] - cfg.RetryInterval * Pow2(i - 1) * 1000
                  \in 0..(JitterRange - 1)
        /\ SumSeq(sleeps) >= cfg.RetryInterval * (Pow2(calls - 1) - 1) * 1000
        /\ responseBody = lastExchange.body
        /\ err = NilErr

\* three 429 answers, then success, with base interval 1 s and 5 attempts:
\* four calls and at least 7 s slept
C1_Witness ==
    /\ rpc = "done"
    /\ cfg.Retries = 5
    /\ cfg.RetryInterval = 1
    /\ Succeeded200(lastExchange)
    /\ n429 = 3
    /\ calls = 4
    /\ Len(sleeps) = 3
    /\ SumSeq(sleeps) >= 7000
    /\ err = NilErr

\* C2: an executor call that fails with an HTTP status >= 400 other than 429
\* ends the call at once: that executor call is made exactly once, no sleep
\* and no further executor call follow it (so a first call that fails this
\* way is the only call and nothing is slept), and its error is the error
\* returned.
C2_TerminalErrorNotRetried ==
    (lastExchange.kind = "http" /\ lastExchange.code >= 400
        /\ lastExchange.code # 429) =>
        /\ Returned
        /\ calls = attempt
        /\ Len(sleeps) = calls - 1
        /\ err = Error(ErrPrefix \o Status(lastExchange.code))
        /\ responseBody = NilBody

C2_Witness ==
    /\ rpc = "done"
    /\ cfg.Retries = 3
    /\ lastExchange.kind = "http"
    /\ lastExchange.code = 500
    /\ calls = 1
    /\ sleeps = <<>>
    /\ ~err.isNil

\* C3: the number of executor calls never exceeds the configured maximum,
\* and when every attempt was answered with HTTP 429 the call returns after
\* exactly that many calls with the (non-nil) error of the last one.
C3_ExhaustedReturnsLastError ==
    /\ calls <= IF cfg.Retries > 0 THEN cfg.Retries ELSE 0
    /\ (rpc = "done" /\ calls >= 1 /\ n429 = calls) =>
          /\ calls = cfg.Retries
          /\ ~err.isNil
          /\ err = Error(ErrPrefix \o Status(429))
          /\ Returned

C3_Witness ==
    /\ rpc = "done"
    /\ cfg.Retries = 3
    /\ n429 = 3
    /\ calls = 3
    /\ ~err.isNil

\* C4: a transport error (no HTTP response) is never retried: the call
\* returns at once with that error, and a sleep is only ever entered after
\* an HTTP 429 response.
C4_TransportErrorNeverRetried ==
    /\ lastExchange.kind = "transport" => Returned /\ ~err.isNil
    /\ rpc = "sleep" => Is429(lastExchange)

-----------------------------------------------------------------------------
(* Properties of resourceMacAccountAddressesUpdate, under SpecUpdate.      *)

IsRemove(r) == r.method = MethodDELETE /\ r.endpoint = RemoveEndpoint
IsAdd(r) == r.method = MethodPOST /\ r.endpoint = AddEndpoint
UpdateSucceeded == op = "Update" /\ pc = "done" /\ diags = NilErr

\* the previous and the declared entries keyed by mac_address
previousEntries == KeyedByMac(d.old)
declaredEntries == KeyedByMac(d.config)

\* positions in the log of the remove requests that name mac
RemovesFor(mac) ==
    {i \in DOMAIN requests :
        /\ IsRemove(requests[i])
        /\ \E k \in DOMAIN requests[i].MacWhiteList :
              requests[i].MacWhiteList[k].Mac = mac}
AddRequests == {i \in DOMAIN requests : IsAdd(requests[i])}
RemoveRequests == {i \in DOMAIN requests : IsRemove(requests[i])}

NoRepeatedMac(list) ==
    \A i, j \in DOMAIN list : list[i].mac_address = list[j].mac_address => i = j

Count(list, e) == Cardinality({i \in DOMAIN list : list[i] = e})
\* the two lists hold the same entries, in any order
SameEntries(s, t) ==
    /\ Len(s) = Len(t)
    /\ \A i \in DOMAIN s : Count(s, s[i]) = Count(t, s[i])

\* C6: every mac-whitelist-remove request is issued, and has returned
\* successfully, before the mac-whitelist-add request is issued; no remove
\* request follows the add.
C6_RemovesBeforeAdd ==
    \A j \in DOMAIN requests :
        IsAdd(requests[j]) =>
            \A i \in DOMAIN requests :
                IsRemove(requests[i]) => i < j /\ requests[i].err = NilErr

\* an add issued after removes of two different loops
C6_Witness ==
    /\ UpdateSucceeded
    /\ Len(requests) = 3
    /\ IsRemove(requests[1])
    /\ requests[1].MacWhiteList[1].Description = Absent
    /\ IsRemove(requests[2])
    /\ requests[2].MacWhiteList[1].Description # Absent
    /\ IsAdd(requests[3])

\* C7: a mac_address of the previous state that is no longer declared gets
\* exactly one remove request in a successful Update (never more than one),
\* and a mac_address still declared with the same description and expiration
\* gets none.
C7_RemoveExactlyTheDropped ==
    /\ \A mac \in MacsOf(d.old) \ MacsOf(d.config) :
          /\ Cardinality(RemovesFor(mac)) <= 1
          /\ UpdateSucceeded => Cardinality(RemovesFor(mac)) = 1
    /\ \A mac \in MacsOf(d.old) \cap MacsOf(d.config) :
          previousEntries[mac] = declaredEntries[mac] => RemovesFor(mac) = {}

\* previous {..01 foo, ..02 bar}, declared {..01 foo}: one remove, for ..02,
\* and one add
C7_Witness ==
    /\ UpdateSucceeded
    /\ d.old = <<[mac_address |-> "AA:BB:CC:DD:EE:01", description |-> "foo",
                  expiration |-> ""],
                 [mac_address |-> "AA:BB:CC:DD:EE:02", description |-> "bar",
                  expiration |-> ""]>>
    /\ d.config = <<[mac_address |-> "AA:BB:CC:DD:EE:01",
                     description |-> "foo", expiration |-> ""]>>
    /\ Len(requests) = 2
    /\ RemovesFor("AA:BB:CC:DD:EE:02") = {1}
    /\ RemovesFor("AA:BB:CC:DD:EE:01") = {}
    /\ AddRequests = {2}

\* C8: a remove request issued for a mac_address that is in both the
\* previous and the declared state carries the previous state's description
\* or expiration as its match value, never the newly declared one.
C8_RemoveCarriesOldValues ==
    \A i \in RemoveRequests :
        LET e == requests[i].MacWhiteList[1] IN
        e.Mac \in MacsOf(d.old) \cap MacsOf(d.config) =>
            /\ e.Description # Absent =>
                  e.Description = previousEntries[e.Mac].description
            /\ e.Expiration # Absent =>
                  e.Expiration = previousEntries[e.Mac].expiration

\* C9: a successful Update has issued exactly one mac-whitelist-add request
\* (no execution issues more than one), and that request carries one entry
\* per declared mac_address and nothing else, each with the description and,
\* when non-empty, the expiration declared for that mac_address, whether or
\* not the entry changed.
C9_OneAddOfAllDeclared ==
    /\ Cardinality(AddRequests) <= 1
    /\ UpdateSucceeded =>
          /\ Cardinality(AddRequests) = 1
          /\ \A j \in AddRequests :
                LET wl == requests[j].MacWhiteList IN
                /\ Len(wl) = Cardinality(MacsOf(d.config))
                /\ \A mac \in MacsOf(d.config) :
                      \E k \in DOMAIN wl :
                          /\ wl[k].Mac = mac
                          /\ wl[k].Description = declaredEntries[mac].description
                          /\ declaredEntries[mac].expiration # "" =>
                                wl[k].Expiration = declaredEntries[mac].expiration
                /\ NoRepeatedMac(d.config) =>
                      \A i \in DOMAIN d.config :
                          \E k \in DOMAIN wl :
                              /\ wl[k].Mac = d.config[i].mac_address
                              /\ wl[k].Description = d.config[i].description
                              /\ d.config[i].expiration # "" =>
                                    wl[k].Expiration = d.config[i].expiration

\* an unchanged entry and a changed one are both carried by the add
C9_Witness ==
    /\ UpdateSucceeded
    /\ Len(d.config) = 2
    /\ NoRepeatedMac(d.config)
    /\ \E mac \in MacsOf(d.config) \cap MacsOf(d.old) :
          previousEntries[mac] = declaredEntries[mac]
    /\ \E mac \in MacsOf(d.config) \cap MacsOf(d.old) :
          previousEntries[mac].expiration # declaredEntries[mac].expiration
    /\ \E j \in AddRequests : Len(requests[j].MacWhiteList) = 2

\* C10 as stated: when the declared list holds the same entries as the
\* previous state, in any order, no remove request is issued and the single
\* batched add is the only request.
C10_UnchangedIssuesNoRemove ==
    SameEntries(d.old, d.config) =>
        /\ RemoveRequests = {}
        /\ UpdateSucceeded => Len(requests) = 1 /\ IsAdd(requests[1])

\* C10 amended: the same, for lists that name no mac_address twice.
C10_UnchangedDistinctIssuesNoRemove ==
    (SameEntries(d.old, d.config) /\ NoRepeatedMac(d.config)) =>
        /\ RemoveRequests = {}
        /\ UpdateSucceeded => Len(requests) = 1 /\ IsAdd(requests[1])

\* two entries declared in the reverse of the stored order
C10_Witness ==
    /\ UpdateSucceeded
    /\ Len(d.config) = 2
    /\ NoRepeatedMac(d.config)
    /\ SameEntries(d.old, d.config)
    /\ d.old # d.config
    /\ Len(requests) = 1
    /\ IsAdd(requests[1])
    /\ Len(requests[1].MacWhiteList) = 2

-----------------------------------------------------------------------------
(* Properties of the handlers' results: order, normalization, errors.      *)

\* what d.Get yields for a stored entry: an unset expiration reads as ""
StoredEntry(e) ==
    [e EXCEPT !.expiration = IF @ \in {NilValue, Absent} THEN "" ELSE @]
StoredList(list) == [i \in DOMAIN list |-> StoredEntry(list[i])]

RequestSucceeded == requests # <<>> /\ requests[Len(requests)].err.isNil
ReadAnswered(o) ==
    op = o /\ pc \in {"done", "panic"} /\ RequestSucceeded
Twin(body) ==
    [body EXCEPT !.shape = IF @ = "array" THEN "object" ELSE "array"]

\* C11: when the declared list names each mac_address once, the list that a
\* successful Create, Update or Read (of a remote returning those same
\* entries, in any order and either shape) leaves in mac_addresses is the
\* declared list, entry for entry in the declared order.
C11_DeclaredOrderKept ==
    (/\ op \in {"Create", "Read", "Update"}
     /\ pc = "done"
     /\ diags = NilErr
     /\ NoRepeatedMac(d.config)) =>
        StoredList(d.mac_addresses) = d.config

\* declared <<02, 01>>, the remote answers <<01, 02>>, Read stores <<02, 01>>
C11_Witness ==
    /\ op = "Read"
    /\ pc = "done"
    /\ diags = NilErr
    /\ Len(d.config) = 2
    /\ d.config[1].mac_address = "AA:BB:CC:DD:EE:02"
    /\ d.config[2].mac_address = "AA:BB:CC:DD:EE:01"
    /\ Len(response.items) = 2
    /\ response.items[1].Mac = "AA:BB:CC:DD:EE:01"
    /\ response.items[2].Mac = "AA:BB:CC:DD:EE:02"
    /\ Len(d.mac_addresses) = 2
    /\ d.mac_addresses[1].mac_address = "AA:BB:CC:DD:EE:02"
    /\ d.mac_addresses[2].mac_address = "AA:BB:CC:DD:EE:01"

\* C12 (as stated): after a successful Read every entry the remote returned
\* whose mac_address is not in DeclaredOrder is in the resulting list, behind
\* every entry whose mac_address is in DeclaredOrder.
C12_OutOfBandKeptLast ==
    (ReadAnswered("Read") /\ pc = "done" /\ diags = NilErr) =>
        \A i \in DOMAIN response.items :
            response.items[i].Mac \notin MacsOf(d.config) =>
                \E k \in DOMAIN d.mac_addresses :
                    /\ d.mac_addresses[k].mac_address = response.items[i].Mac
                    /\ \A j \in DOMAIN d.mac_addresses :
                          d.mac_addresses[j].mac_address \in MacsOf(d.config)
                              => j < k

\* C12 (amended): after a successful Read the resulting list holds only
\* entries whose mac_address is in DeclaredOrder; an entry the remote
\* returned under any other mac_address is left out.
C12_OutOfBandDropped ==
    (ReadAnswered("Read") /\ pc = "done" /\ diags = NilErr) =>
        /\ MacsOf(d.mac_addresses) \subseteq MacsOf(d.config)
        /\ \A i \in DOMAIN response.items :
              response.items[i].Mac \notin MacsOf(d.config) =>
                  response.items[i].Mac \notin MacsOf(d.mac_addresses)

\* the remote returns a declared entry and an out-of-band one; only the
\* declared one is stored
C12_Witness ==
    /\ ReadAnswered("Read")
    /\ pc = "done"
    /\ diags = NilErr
    /\ MacsOf(d.config) = {"AA:BB:CC:DD:EE:01"}
    /\ response.shape = "array"
    /\ {response.items[i].Mac : i \in DOMAIN response.items}
          = {"AA:BB:CC:DD:EE:01", OutOfBandMac}
    /\ MacsOf(d.mac_addresses) = {"AA:BB:CC:DD:EE:01"}

\* C13: what Read and Import make of a decoded response whose MacWhiteList
\* is a bare array or an object with the array under _items is what they
\* make of the response carrying the same items in the other shape.
C13_ShapesAgree ==
    (/\ response.wellFormed
     /\ response.shape \in WrappedShapes) =>
        /\ ReadAnswered("Read") =>
              \E out \in ReadResults(d.config, Twin(response)) :
                  /\ (out.status = "panic") = (pc = "panic")
                  /\ d.mac_addresses = out.mac_addresses
                  /\ diags = NilErr
        /\ ReadAnswered("Import") =>
              LET out == ImportResult(d.id, Twin(response)) IN
              /\ diags = out.err
              /\ d.mac_addresses = out.mac_addresses
              /\ (imported = <<>>) = ~out.err.isNil

\* a response wrapping two declared entries under _items: both are stored
C13_Witness ==
    /\ ReadAnswered("Read")
    /\ pc = "done"
    /\ response.wellFormed
    /\ response.shape = "object"
    /\ Len(response.items) = 2
    /\ Len(d.mac_addresses) = 2
    /\ \A i \in DOMAIN d.mac_addresses :
          \E j \in DOMAIN response.items :
              /\ response.items[j].Mac = d.mac_addresses[i].mac_address
              /\ response.items[j].Description = d.mac_addresses[i].description

\* C14: given a MacWhiteList wrapped as an object with _items, the data
\* source read and the account read finish without an error, and the data
\* source stores one mac_whitelist entry per wrapped item.
C14_AccountReadsTakeBothShapes ==
    (/\ op \in {"DataSourceRead", "AccountRead"}
     /\ pc = "done"
     /\ RequestSucceeded
     /\ response.wellFormed
     /\ response.shape = "object") =>
        /\ diags = NilErr
        /\ op = "DataSourceRead" =>
              /\ d.mac_whitelist.set
              /\ Len(d.mac_whitelist.list) = Len(response.items)

\* C15 (as stated): when MacWhiteList is absent, null or of a wrong type,
\* Read and Import finish without a panic and without an error, with an
\* empty list.
C15_DegenerateIsEmptyNoError ==
    (/\ ReadAnswered("Read") \/ ReadAnswered("Import")
     /\ response.wellFormed
     /\ response.shape \in DegenerateShapes) =>
        /\ pc = "done"
        /\ diags = NilErr
        /\ d.mac_addresses = <<>>

\* C15 (amended): when MacWhiteList is absent, null or of a wrong type, Read
\* and Import treat it as the empty list without a panic: Read and an Import
\* without a MAC filter finish without an error and with an empty list; an
\* Import with a MAC filter returns the error it returns whenever none of
\* the listed MACs is found.
C15_DegenerateIsEmpty ==
    (/\ ReadAnswered("Read") \/ ReadAnswered("Import")
     /\ response.wellFormed
     /\ response.shape \in DegenerateShapes) =>
        /\ pc = "done"
        /\ d.mac_addresses = <<>>
        /\ IF op = "Import" /\ ImportParts(d.id).hasFilter
           THEN /\ diags = Error(ErrNoneFound \o AccountTestText)
                /\ imported = <<>>
           ELSE diags = NilErr

\* MacWhiteList is a string; Read of a resource with stored entries ends
\* with an empty list and no error
C15_Witness ==
    /\ ReadAnswered("Read")
    /\ pc = "done"
    /\ response.wellFormed
    /\ response.shape = "string"
    /\ Len(d.config) = 2
    /\ d.mac_addresses = <<>>
    /\ diags = NilErr

\* C16: Read, Import and the data source read never panic on a decoded
\* response, and no entry they store has a nil description.
C16_NullDescriptionBecomesEmpty ==
    (/\ ReadAnswered("Read") \/ ReadAnswered("Import")
           \/ ReadAnswered("DataSourceRead")
     /\ response.wellFormed) =>
        /\ pc = "done"
        /\ op \in {"Read", "Import"} =>
              \A i \in DOMAIN d.mac_addresses :
                  d.mac_addresses[i].description # NilValue
        /\ op = "DataSourceRead" =>
              \A i \in DOMAIN d.mac_whitelist.list :
                  d.mac_whitelist.list[i].description # NilValue

\* C17 (as stated): no entry stored by Read, Import or the data source read
\* has the empty string as its expiration.
C17_ExpirationNeverEmptyString ==
    (/\ ReadAnswered("Read") \/ ReadAnswered("Import")
           \/ ReadAnswered("DataSourceRead")
     /\ pc = "done"
     /\ diags = NilErr) =>
        /\ op \in {"Read", "Import"} =>
              \A i \in DOMAIN d.mac_addresses :
                  d.mac_addresses[i].expiration # ""
        /\ op = "DataSourceRead" =>
              \A i \in DOMAIN d.mac_whitelist.list :
                  d.mac_whitelist.list[i].expiration # ""

\* C17 (amended): an entry stored by Read or Import has an unset expiration
\* (nil, or no key at all) exactly when the remote entry's Expiration is
\* missing or empty, and never the empty string; the data source read
\* stores the empty string for such an entry.
C17_ExpirationUnsetOrEmpty ==
    (/\ ReadAnswered("Read") \/ ReadAnswered("Import")
           \/ ReadAnswered("DataSourceRead")
     /\ pc = "done"
     /\ diags = NilErr) =>
        /\ op \in {"Read", "Import"} =>
              \A i \in DOMAIN d.mac_addresses :
                  LET e == d.mac_addresses[i] IN
                  /\ e.expiration # ""
                  /\ e.expiration \in {NilValue, Absent} =>
                        \E j \in DOMAIN response.items :
                            /\ response.items[j].Mac = e.mac_address
                            /\ response.items[j].Expiration \in {NilValue, ""}
                  /\ e.expiration \notin {NilValue, Absent} =>
                        \E j \in DOMAIN response.items :
                            /\ response.items[j].Mac = e.mac_address
                            /\ response.items[j].Expiration = e.expiration
        /\ op = "DataSourceRead" =>
              LET named == SelectSeq(response.items, LAMBDA x : x.Mac # "") IN
              /\ Len(d.mac_whitelist.list) = Len(named)
                    \/ ~d.mac_whitelist.set
              /\ \A i \in DOMAIN d.mac_whitelist.list :
                    d.mac_whitelist.list[i].expiration =
                        IF named[i].Expiration \in {NilValue, ""}
                        THEN "" ELSE named[i].Expiration

\* the remote holds a declared entry with Expiration "": Read stores it
\* with a nil expiration
C17_Witness ==
    /\ ReadAnswered("Read")
    /\ pc = "done"
    /\ diags = NilErr
    /\ Len(response.items) = 1
    /\ response.items[1].Expiration = ""
    /\ Len(d.mac_addresses) = 1
    /\ d.mac_addresses[1].mac_address = response.items[1].Mac
    /\ d.mac_addresses[1].expiration = NilValue

\* the error text a handler returns for a body that does not decode
IsDecodeError(e) == ~e.isNil /\ Contains(e.msg, DecodeError.msg)

\* C18 (as stated): when the body is not well-formed JSON, the read handler
\* returns a decode error and the resource data it was called with is as it
\* was before the call.
C18_DecodeErrorWritesNothing ==
    (/\ op \in {"Read", "Import", "DataSourceRead", "AccountRead"}
     /\ pc \in {"done", "panic"}
     /\ RequestSucceeded
     /\ ~response.wellFormed) =>
        /\ pc = "done"
        /\ IsDecodeError(diags)
        /\ imported = <<>>
        /\ d \in ReadData

\* C18 (amended): when the body is not well-formed JSON, the read handler
\* returns a decode error; Read, the data source read and the account read
\* leave the resource data as it was, and Import, which has set account_name
\* before the request, has changed nothing else and returns no resource
\* data.
C18_DecodeErrorStoresNothing ==
    (/\ op \in {"Read", "Import", "DataSourceRead", "AccountRead"}
     /\ pc \in {"done", "panic"}
     /\ RequestSucceeded
     /\ ~response.wellFormed) =>
        /\ pc = "done"
        /\ IsDecodeError(diags)
        /\ imported = <<>>
        /\ IF op = "Import"
           THEN /\ [d EXCEPT !.account_name = ""] \in ReadData
                /\ d.account_name = ImportParts(d.id).accountName
           ELSE d \in ReadData

\* Read of a resource with two stored entries gets a malformed body
C18_Witness ==
    /\ op = "Read"
    /\ pc = "done"
    /\ RequestSucceeded
    /\ response = MalformedBody
    /\ IsDecodeError(diags)
    /\ Len(d.mac_addresses) = 2
    /\ d.mac_addresses = d.config

\* C19: in Create, Update and Delete every request but the last one issued
\* returned a nil error, and once a request has returned an error the
\* handler has returned that error and issues nothing more.
C19_FirstErrorAborts ==
    (op \in {"Create", "Update", "Delete"}) =>
        /\ \A i \in DOMAIN requests :
              i < Len(requests) => requests[i].err.isNil
        /\ (requests # <<>> /\ ~requests[Len(requests)].err.isNil) =>
              /\ pc = "done"
              /\ diags = requests[Len(requests)].err
              /\ ~ENABLED NextLifecycle

\* an Update whose first remove succeeded and whose second remove failed:
\* the error is returned and no add was issued
C19_Witness ==
    /\ op = "Update"
    /\ pc = "done"
    /\ Len(requests) = 2
    /\ IsRemove(requests[1])
    /\ requests[1].err.isNil
    /\ IsRemove(requests[2])
    /\ ~requests[2].err.isNil
    /\ diags = requests[2].err
    /\ AddRequests = {}

\* the part of the remote whitelist under previous or declared mac_addresses
RemoteInScope ==
    [m \in DOMAIN remote \cap (MacsOf(d.old) \cup MacsOf(d.config)) |->
        remote[m]]
RerunSucceeded ==
    op = "Update" /\ pc = "done" /\ diags = NilErr /\ run >= 1

\* C20 (as stated): after a failed Update has been run again with the same
\* previous state and declared list and has succeeded, the remote entries
\* under previous and declared mac_addresses are exactly the declared
\* entries.
C20_RerunReachesDeclaredSet ==
    RerunSucceeded =>
        {RemoteInScope[m] : m \in DOMAIN RemoteInScope}
            = {AddEntry(d.config[i]) : i \in DOMAIN d.config}

\* C20 (amended): after a failed Update has been run again with the same
\* previous state and declared list and has succeeded, the remote holds,
\* under previous and declared mac_addresses, one entry per declared
\* mac_address, the one declared last for it, and nothing else.
C20_RerunReachesDeclaredKeyed ==
    RerunSucceeded =>
        RemoteInScope = RemoteHolding(d.config)

\* the first run removed a dropped key and failed on the next request; the
\* second run succeeded and the remote holds the declared entry
C20_Witness ==
    /\ RerunSucceeded
    /\ Len(requests) >= 3
    /\ IsRemove(requests[1])
    /\ requests[1].err.isNil
    /\ ~requests[2].err.isNil
    /\ MacsOf(d.old) = {"AA:BB:CC:DD:EE:01", "AA:BB:CC:DD:EE:02"}
    /\ MacsOf(d.config) = {"AA:BB:CC:DD:EE:02"}
    /\ d.old[1] # d.config[1]
    /\ remote = RemoteHolding(d.config)

-----------------------------------------------------------------------------
(* Properties of resourceMacAccountAddressesDelete, under SpecLifecycle.   *)

DeleteReturned == op = "Delete" /\ pc = "done"
MacOnly(x) == x.Description = Absent /\ x.Expiration = Absent

\* C21 as stated: Delete issues one remove request per stored entry, each
\* naming that entry's mac_address alone, and clears the identity after the
\* removals succeeded.
C21_OneRemovePerEntry ==
    (DeleteReturned /\ diags = NilErr) =>
        /\ Len(requests) = Len(d.mac_addresses)
        /\ \A i \in DOMAIN requests :
              /\ IsRemove(requests[i])
              /\ Len(requests[i].MacWhiteList) = 1
              /\ requests[i].MacWhiteList[1].Mac = d.mac_addresses[i].mac_address
              /\ MacOnly(requests[i].MacWhiteList[1])
        /\ d.id = ""

\* C21: Delete issues exactly one remove request, whatever the number of
\* stored entries; its MacWhiteList has one element per stored entry, in
\* stored order, carrying the mac_address and neither description nor
\* expiration; the identity is cleared when that request succeeded and
\* kept when it failed.
C21_OneBatchedRemove ==
    DeleteReturned =>
        /\ Len(requests) = 1
        /\ IsRemove(requests[1])
        /\ Len(requests[1].MacWhiteList) = Len(d.mac_addresses)
        /\ \A i \in DOMAIN d.mac_addresses :
              /\ requests[1].MacWhiteList[i].Mac = d.mac_addresses[i].mac_address
              /\ MacOnly(requests[1].MacWhiteList[i])
        /\ diags = requests[1].err
        /\ (diags = NilErr) <=> (d.id = "")

\* a successful Delete of a resource storing two entries, one of them with a
\* description and an expiration
C21_Witness ==
    /\ DeleteReturned
    /\ diags = NilErr
    /\ d.id = ""
    /\ Len(d.mac_addresses) = 2
    /\ d.mac_addresses[1].mac_address # d.mac_addresses[2].mac_address
    /\ d.mac_addresses[1].expiration # ""
    /\ Len(requests) = 1
    /\ Len(requests[1].MacWhiteList) = 2

-----------------------------------------------------------------------------
(* The number of removes of an Update, under SpecUpdate.                   *)

\* the mac_addresses of the previous state that are declared no more, and
\* the kept ones whose description, or whose expiration, is declared changed
DroppedMacs == MacsOf(d.old) \ MacsOf(d.config)
KeptMacs == MacsOf(d.old) \cap MacsOf(d.config)
DescriptionChangedMacs ==
    {mac \in KeptMacs :
        previousEntries[mac].description # declaredEntries[mac].description}
ExpirationChangedMacs ==
    {mac \in KeptMacs :
        previousEntries[mac].expiration # declaredEntries[mac].expiration}

\* C29: a successful Update has issued as many remove requests as there are
\* previous mac_addresses declared no more, plus kept mac_addresses whose
\* description changed, plus kept mac_addresses whose expiration changed
\* (set or cleared or given another value); a mac_address whose description
\* and expiration both changed is named by exactly two remove requests, and
\* both precede the add.
C29_RemoveCount ==
    UpdateSucceeded =>
        /\ Cardinality(RemoveRequests) =
              Cardinality(DroppedMacs) + Cardinality(DescriptionChangedMacs)
                  + Cardinality(ExpirationChangedMacs)
        /\ \A mac \in DescriptionChangedMacs \cap ExpirationChangedMacs :
              /\ Cardinality(RemovesFor(mac)) = 2
              /\ \A i \in RemovesFor(mac), j \in AddRequests : i < j

\* previous [..01 bar], declared [..01 foo with an expiration]: two removes
\* of ..01, one carrying the description and one the expiration, then the add
C29_Witness ==
    /\ UpdateSucceeded
    /\ Len(d.old) = 1
    /\ Len(d.config) = 1
    /\ d.old[1].mac_address = d.config[1].mac_address
    /\ d.old[1].description # d.config[1].description
    /\ d.old[1].expiration = ""
    /\ d.config[1].expiration # ""
    /\ Len(requests) = 3
    /\ RemovesFor(d.old[1].mac_address) = {1, 2}
    /\ requests[1].MacWhiteList[1].Description # Absent
    /\ requests[1].MacWhiteList[1].Expiration = Absent
    /\ requests[2].MacWhiteList[1].Description = Absent
    /\ requests[2].MacWhiteList[1].Expiration = d.config[1].expiration
    /\ AddRequests = {3}

-----------------------------------------------------------------------------
(* Selective import, under SpecRead.                                       *)

\* the mac_addresses an import identity lists after the account; NoList
\* when it lists none
NoList == {"<no list>"}
Listed(id) ==
    CASE id = "test,AA:BB:CC:DD:EE:01" -> {"AA:BB:CC:DD:EE:01"}
      [] id = "test,AA:BB:CC:DD:EE:01; AA:BB:CC:DD:EE:03 " ->
            {"AA:BB:CC:DD:EE:01", "AA:BB:CC:DD:EE:03"}
      [] id = "test,AA:BB:CC:DD:EE:03" -> {"AA:BB:CC:DD:EE:03"}
      [] OTHER -> NoList

\* a remote entry as the state stores it
AsStored(x) ==
    [mac_address |-> x.Mac,
     description |-> IF x.Description = NilValue THEN "" ELSE x.Description,
     expiration |-> IF x.Expiration \in {NilValue, ""} THEN Absent
                    ELSE x.Expiration]

\* the entries of the answered list that the import is to take
Wanted(id, body) ==
    LET items == IF body.shape \in WrappedShapes THEN body.items ELSE <<>> IN
    SelectSeq(items,
        LAMBDA x : /\ x.Mac # ""
                   /\ (Listed(id) # NoList => x.Mac \in Listed(id)))

ImportAnswered ==
    /\ op = "Import"
    /\ pc = "done"
    /\ RequestSucceeded
    /\ response \in AccountBodies

\* C28: an import whose GET was answered with a decodable account stores
\* exactly the remote entries whose Mac is listed in the identity
\* `account,mac1;mac2;...` (spaces around a listed MAC ignored), or, when the
\* identity lists none, every remote entry with a non-empty Mac; when a
\* list is given and the remote holds none of its MACs, the import returns
\* an error and no resource.
C28_SelectiveImport ==
    ImportAnswered =>
        LET wanted == Wanted(d.id, response) IN
        IF Listed(d.id) # NoList /\ wanted = <<>>
        THEN /\ ~diags.isNil
             /\ imported = <<>>
             /\ d.mac_addresses = <<>>
        ELSE /\ diags = NilErr
             /\ imported = <<d>>
             /\ d.account_name = "test"
             /\ SameEntries(d.mac_addresses,
                            [i \in DOMAIN wanted |-> AsStored(wanted[i])])

\* an import listing ..01 and ..03 from a remote holding ..02 and ..01:
\* the state holds ..01 alone
C28_Witness ==
    /\ ImportAnswered
    /\ d.id = "test,AA:BB:CC:DD:EE:01; AA:BB:CC:DD:EE:03 "
    /\ Len(response.items) = 2
    /\ response.items[1].Mac = "AA:BB:CC:DD:EE:02"
    /\ response.items[2].Mac = "AA:BB:CC:DD:EE:01"
    /\ diags = NilErr
    /\ Len(d.mac_addresses) = 1
    /\ d.mac_addresses[1].mac_address = "AA:BB:CC:DD:EE:01"

\* an import without a list from a remote holding an entry with an empty
\* Mac: that entry is left out
C28_WitnessEmptyMac ==
    /\ ImportAnswered
    /\ d.id = "test"
    /\ Len(response.items) = 2
    /\ response.items[1].Mac = ""
    /\ response.items[2].Mac = "AA:BB:CC:DD:EE:02"
    /\ Len(d.mac_addresses) = 1

\* an import listing ..03 from a remote that does not hold it
C28_WitnessNoneFound ==
    /\ ImportAnswered
    /\ d.id = "test,AA:BB:CC:DD:EE:03"
    /\ Len(response.items) = 1
    /\ response.items[1].Mac = "AA:BB:CC:DD:EE:01"
    /\ ~diags.isNil
    /\ imported = <<>>

-----------------------------------------------------------------------------
(* The account-not-found answer in resourceMacAccountRead, under SpecRead. *)

\* the GET of the account read was last answered with a 4xx status and a
\* body carrying InternalErrorCode 5357
NotFoundAnswered ==
    /\ op = "AccountRead"
    /\ pc = "done"
    /\ lastExchange.kind = "http"
    /\ lastExchange.code >= 400
    /\ lastExchange.code < 500
    /\ lastExchange.body = ErrorBody5357

\* C22: when the account GET is answered with a 4xx status whose body
\* carries InternalErrorCode 5357, the account read gets that body back
\* from MakeRequestWithRetry, clears the identity and returns the warning
\* diagnostic alone.
C22_NotFoundClearsIdentity ==
    NotFoundAnswered =>
        /\ responseBody = ErrorBody5357
        /\ d.id = ""
        /\ diags = WarningNotFound

-----------------------------------------------------------------------------
(* resourceMacAccountCreate and resourceMacAccountDelete.                  *)

\* mutant: an inline entry sent with its mac alone
AccountWhiteListEntryMacOnly(e) ==
    [Mac |-> e.mac, Description |-> Absent, Expiration |-> Absent]

\* one element of the MacWhiteList of the create payload
AccountWhiteListEntry(e) ==
    [Mac |-> e.mac, Description |-> e.description, Expiration |-> e.expiration]

\* the whole create handler: one POST of the account and of the inline
\* whitelist, then the identity is set
AccountCreate ==
    /\ op = "none"
    /\ pc = "idle"
    /\ d.resource = AccountResource
    /\ d.id = ""
    /\ op' = "AccountCreate"
    /\ pc' = "done"
    /\ \E e \in RetryErrors(MethodPOST, AccountsEndpoint) :
         /\ requests' =
              <<[method |-> MethodPOST, endpoint |-> AccountsEndpoint,
                 MacBasedAccounts |->
                     <<[AccountName |-> d.account_name,
                        Description |-> IF d.description # ""
                                        THEN d.description ELSE Absent]>>,
                 MacWhiteList |->
                     IF GetOkList(d.mac_whitelist)
                     THEN [i \in DOMAIN d.mac_whitelist.list |->
                              AccountWhiteListEntry(d.mac_whitelist.list[i])]
                     ELSE Absent,
                 err |-> e]>>
         /\ diags' = e
         /\ d' = IF e.isNil THEN [d EXCEPT !.id = d.account_name] ELSE d
    /\ UNCHANGED auxVars
    /\ UNCHANGED <<cfg, todo>>
    /\ UNCHANGED retryVars
    /\ UNCHANGED envVars

\* "/api/mac-based-accounts/"+accountID
AccountEndpoint(accountID) ==
    CASE accountID = "test" -> AccountEndpointPrefix \o AccountTestText

\* the whole delete handler: one DELETE of the stored identity, then the
\* identity is cleared
AccountDelete ==
    /\ op = "none"
    /\ pc = "idle"
    /\ d.resource = AccountResource
    /\ d.id # ""
    /\ op' = "AccountDelete"
    /\ pc' = "done"
    /\ \E e \in RetryErrors(MethodDELETE, AccountEndpoint(d.id)) :
         /\ requests' =
              <<[method |-> MethodDELETE, endpoint |-> AccountEndpoint(d.id),
                 AccountName |-> Absent, MacWhiteList |-> Absent, err |-> e]>>
         /\ diags' = e
         /\ d' = IF e.isNil THEN [d EXCEPT !.id = ""] ELSE d
    /\ UNCHANGED auxVars
    /\ UNCHANGED <<cfg, todo>>
    /\ UNCHANGED retryVars
    /\ UNCHANGED envVars

\* the inline mac_whitelist blocks of an account
AccountEntries ==
    {[mac |-> e.mac_address, description |-> e.description,
      expiration |-> e.expiration] : e \in Entries}
AccountEntryLists == UNION {[1..n -> AccountEntries] : n \in 0..MaxLen}
AccountDescriptions == {"", "lab"}

\* an account about to be created (no identity) or deleted (stored)
AccountData ==
    {[resource |-> AccountResource, id |-> i, account_name |-> a,
      description |-> t,
      mac_whitelist |-> IF w = <<>> THEN UnsetList ELSE SetList(w)] :
        a \in AccountNames, i \in {""} \cup AccountNames,
        t \in AccountDescriptions, w \in AccountEntryLists}

InitAccount ==
    /\ cfg \in HandlerConfigs
    /\ req = NoRequest
    /\ rpc = "idle"
    /\ attempt = 0
    /\ backoff = 0
    /\ responseBody = NilBody
    /\ err = NilErr
    /\ calls = 0
    /\ sleeps = <<>>
    /\ n429 = 0
    /\ lastExchange = NoExchange
    /\ op = "none"
    /\ pc = "idle"
    /\ d \in AccountData
    /\ todo = {}
    /\ requests = <<>>
    /\ diags = NilErr
    /\ response = NoResponse
    /\ imported = <<>>
    /\ remote = NoRemote
    /\ run = 0
    /\ logged = <<>>
    /\ peer = NoPeer
    /\ slept = <<>>

NextAccount == AccountCreate \/ AccountDelete

SpecAccount == InitAccount /\ [][NextAccount]_vars

-----------------------------------------------------------------------------
(* Properties of the account create and delete, under SpecAccount.         *)

\* C23: the account create issues exactly one request, a POST to
\* /api/mac-based-accounts carrying the account name and every inline
\* whitelist entry with its mac, description and expiration, and the
\* identity becomes the account name exactly when the request succeeded;
\* the account delete issues exactly one request, a DELETE of
\* /api/mac-based-accounts/<identity>, and the identity is cleared exactly
\* when it succeeded.
C23_AccountSingleRequests ==
    /\ (op = "AccountCreate" /\ pc = "done") =>
          /\ Len(requests) = 1
          /\ requests[1].method = <<"P", "O", "S", "T">>
          /\ requests[1].endpoint \o <<"/">> = AccountEndpointPrefix
          /\ requests[1].MacBasedAccounts[1].AccountName = d.account_name
          /\ LET inline == d.mac_whitelist.list IN
             IF inline = <<>> THEN requests[1].MacWhiteList = Absent
             ELSE /\ Len(requests[1].MacWhiteList) = Len(inline)
                  /\ \A i \in DOMAIN inline :
                        /\ requests[1].MacWhiteList[i].Mac = inline[i].mac
                        /\ requests[1].MacWhiteList[i].Description
                              = inline[i].description
                        /\ requests[1].MacWhiteList[i].Expiration
                              = inline[i].expiration
          /\ diags = requests[1].err
          /\ d.id = IF diags = NilErr THEN d.account_name ELSE ""
    /\ (op = "AccountDelete" /\ pc = "done") =>
          /\ Len(requests) = 1
          /\ requests[1].method = <<"D", "E", "L", "E", "T", "E">>
          /\ requests[1].endpoint = AccountEndpointPrefix \o AccountTestText
          /\ diags = requests[1].err
          /\ d.id = IF diags = NilErr THEN "" ELSE d.account_name

\* a successful create of an account with two inline entries, one with an
\* expiration
C23_Witness ==
    /\ op = "AccountCreate"
    /\ pc = "done"
    /\ diags = NilErr
    /\ d.id = "test"
    /\ Len(d.mac_whitelist.list) = 2
    /\ d.mac_whitelist.list[1].mac # d.mac_whitelist.list[2].mac
    /\ d.mac_whitelist.list[2].expiration # ""
    /\ Len(requests) = 1
    /\ Len(requests[1].MacWhiteList) = 2

\* a successful delete of a stored account
C23_WitnessDelete ==
    /\ op = "AccountDelete"
    /\ pc = "done"
    /\ diags = NilErr
    /\ d.id = ""
    /\ Len(requests) = 1

-----------------------------------------------------------------------------
(* The requests of the read handlers, under SpecRead.                      *)

ReadHandlers ==
    {"Read", "AddressRead", "AccountRead", "DataSourceRead", "Import"}

\* the request is the search POST
IsSearch(r) ==
    /\ r.method = <<"P", "O", "S", "T">>
    /\ r.endpoint = SearchEndpoint
\* the request is a GET of one account by its id
IsGetById(r) ==
    /\ r.method = <<"G", "E", "T">>
    /\ r.endpoint = AccountEndpointPrefix \o AccountTestText

\* C24: in every execution of the addresses Read, the single-address Read,
\* the account Read, the data-source Read and the Import, each request
\* issued is the search POST or a GET of the account by id: never a
\* mac-whitelist-add, a mac-whitelist-remove, an account create or an
\* account delete; each of them issues exactly one request.
C24_ReadsOnlySearchOrGet ==
    (op \in ReadHandlers) =>
        /\ Len(requests) = 1
        /\ \A i \in DOMAIN requests :
              /\ IsSearch(requests[i]) \/ IsGetById(requests[i])
              /\ ~IsAdd(requests[i])
              /\ ~IsRemove(requests[i])
              /\ requests[i].method # <<"D", "E", "L", "E", "T", "E">>
              /\ requests[i].endpoint \o <<"/">> # AccountEndpointPrefix
        /\ remote = NoRemote

\* a successful single-address Read: one search POST naming the stored
\* entry, and the stored values unchanged
C24_Witness ==
    /\ op = "AddressRead"
    /\ pc = "done"
    /\ diags = NilErr
    /\ Len(requests) = 1
    /\ IsSearch(requests[1])
    /\ requests[1].MacWhiteList[1].Mac = d.mac_address
    /\ d.expiration # ""

-----------------------------------------------------------------------------
(* Schema validation of MAC entries, and the creates that follow it.       *)

\* StringLenBetween(0, 64): the longest description accepted
MaxDescriptionLen == 64

\* configured mac_address values: two well-formed ones (colons, dashes),
\* one with five groups, one with a non-hex digit, one without separators,
\* one followed by a space
MacTexts ==
    {"AA:BB:CC:DD:EE:01", "aa-bb-cc-dd-ee-0f", "AA:BB:CC:DD:EE",
     "AA:BB:CC:DD:EE:0G", "AABBCCDDEE01", "AA:BB:CC:DD:EE:01 "}
\* configured descriptions: empty, plain, with a dash, with a space, with
\* an underscore, of the greatest accepted length, and one longer
LongestDescription == "a64"
TooLongDescription == "a65"
DescriptionTexts ==
    {"", "foo", "net-printer", "my printer", "foo_bar",
     LongestDescription, TooLongDescription}

\* the characters of a configured string
Chars(id) ==
    CASE id = "" -> <<>>
      [] id = LongestDescription -> [i \in 1..MaxDescriptionLen |-> "a"]
      [] id = TooLongDescription -> [i \in 1..(MaxDescriptionLen + 1) |-> "a"]
      [] id = "AA:BB:CC:DD:EE:01" ->
            <<"A", "A", ":", "B", "B", ":", "C", "C", ":", "D", "D", ":",
            "E", "E", ":", "0", "1">>
      [] id = "aa-bb-cc-dd-ee-0f" ->
            <<"a", "a", "-", "b", "b", "-", "c", "c", "-", "d", "d", "-",
            "e", "e", "-", "0", "f">>
      [] id = "AA:BB:CC:DD:EE" ->
            <<"A", "A", ":", "B", "B", ":", "C", "C", ":", "D", "D", ":",
            "E", "E">>
      [] id = "AA:BB:CC:DD:EE:0G" ->
            <<"A", "A", ":", "B", "B", ":", "C", "C", ":", "D", "D", ":",
            "E", "E", ":", "0", "G">>
      [] id = "AABBCCDDEE01" ->
            <<"A", "A", "B", "B", "C", "C", "D", "D", "E", "E", "0", "1">>
      [] id = "AA:BB:CC:DD:EE:01 " ->
            <<"A", "A", ":", "B", "B", ":", "C", "C", ":", "D", "D", ":",
            "E", "E", ":", "0", "1", " ">>
      [] id = "foo" ->
            <<"f", "o", "o">>
      [] id = "net-printer" ->
            <<"n", "e", "t", "-", "p", "r", "i", "n", "t", "e", "r">>
      [] id = "my printer" ->
            <<"m", "y", " ", "p", "r", "i", "n", "t", "e", "r">>
      [] id = "foo_bar" ->
            <<"f", "o", "o", "_", "b", "a", "r">>

HexDigits ==
    {"0", "1", "2", "3", "4", "5", "6", "7", "8", "9",
     "a", "b", "c", "d", "e", "f", "A", "B", "C", "D", "E", "F"}
Alphanumerics ==
    HexDigits \cup
    {"g", "h", "i", "j", "k", "l", "m", "n", "o", "p", "q", "r", "s", "t",
     "u", "v", "w", "x", "y", "z", "G", "H", "I", "J", "K", "L", "M", "N",
     "O", "P", "Q", "R", "S", "T", "U", "V", "W", "X", "Y", "Z"}

\* the text matches ^([0-9A-Fa-f]{2}[:-]){5}([0-9A-Fa-f]{2})$
MatchesMacFormat(text) ==
    /\ Len(text) = 5 * 3 + 2
    /\ \A i \in DOMAIN text :
          IF i % 3 = 0 THEN text[i] \in {":", "-"} ELSE text[i] \in HexDigits

\* StringLenBetween(0, 64) and ^[a-zA-Z0-9-]*$
MatchesDescriptionRules(text) ==
    /\ Len(text) <= MaxDescriptionLen
    /\ \A i \in DOMAIN text : text[i] \in Alphanumerics \cup {"-"}

\* the fields of a resource's MAC entries that declare a ValidateFunc
ValidatedFields(resource) ==
    CASE resource = AddressesResource -> {"mac_address", "description"}
      [] resource = AddressResource -> {}
      [] resource = AccountResource -> {}

\* the MAC entries a resource is configured with, as (mac, description)
ConfiguredEntries(data) ==
    CASE data.resource = AddressesResource ->
            {[mac |-> data.config[i].mac_address,
              description |-> data.config[i].description] :
                i \in DOMAIN data.config}
      [] data.resource = AddressResource ->
            {[mac |-> data.mac_address, description |-> data.description]}
      [] data.resource = AccountResource ->
            {[mac |-> data.mac_whitelist.list[i].mac,
              description |-> data.mac_whitelist.list[i].description] :
                i \in DOMAIN data.mac_whitelist.list}

\* the fields whose ValidateFunc rejects the configuration
SchemaErrors(data) ==
    {f \in ValidatedFields(data.resource) :
        \E e \in ConfiguredEntries(data) :
            \/ f = "mac_address" /\ ~MatchesMacFormat(Chars(e.mac))
            \/ f = "description"
                  /\ ~MatchesDescriptionRules(Chars(e.description))}

ValidationError ==
    [isNil |-> FALSE, severity |-> "Error", msg |-> "invalid value"]

\* the configuration is rejected by a ValidateFunc: no handler is called
ValidateReject ==
    /\ op = "none"
    /\ pc = "idle"
    /\ SchemaErrors(d) # {}
    /\ op' = "Validate"
    /\ pc' = "done"
    /\ diags' = ValidationError
    /\ UNCHANGED auxVars
    /\ UNCHANGED <<cfg, d, todo, requests>>
    /\ UNCHANGED retryVars
    /\ UNCHANGED envVars

\* the whole create handler of the single-address resource: one add of the
\* entry, then the identity is set
AddressCreate ==
    /\ op = "none"
    /\ pc = "idle"
    /\ d.resource = AddressResource
    /\ d.id = ""
    /\ op' = "AddressCreate"
    /\ pc' = "done"
    /\ \E e \in RetryErrors(MethodPOST, AddEndpoint) :
         /\ requests' =
              <<Issued(MethodPOST, AddEndpoint,
                       <<[Mac |-> d.mac_address,
                          Description |-> d.description,
                          Expiration |-> IF d.expiration # ""
                                         THEN d.expiration ELSE Absent]>>, e)>>
         /\ diags' = e
         /\ d' = IF e.isNil
                 THEN [d EXCEPT !.id = d.account_name \o ":" \o d.mac_address]
                 ELSE d
    /\ UNCHANGED auxVars
    /\ UNCHANGED <<cfg, todo>>
    /\ UNCHANGED retryVars
    /\ UNCHANGED envVars

\* a new resource of each of the three kinds, configured with one MAC entry
ValidateData ==
    UNION {
        {[resource |-> AddressesResource, id |-> "", account_name |-> a,
          config |-> <<[mac_address |-> m, description |-> t,
                        expiration |-> ""]>>,
          mac_addresses |-> <<[mac_address |-> m, description |-> t,
                               expiration |-> ""]>>,
          old |-> <<>>],
         [resource |-> AddressResource, id |-> "", account_name |-> a,
          mac_address |-> m, description |-> t, expiration |-> ""],
         [resource |-> AccountResource, id |-> "", account_name |-> a,
          description |-> "",
          mac_whitelist |-> SetList(<<[mac |-> m, description |-> t,
                                       expiration |-> ""]>>)]} :
        a \in AccountNames, m \in MacTexts, t \in DescriptionTexts}

InitValidate ==
    /\ cfg \in HandlerConfigs
    /\ req = NoRequest
    /\ rpc = "idle"
    /\ attempt = 0
    /\ backoff = 0
    /\ responseBody = NilBody
    /\ err = NilErr
    /\ calls = 0
    /\ sleeps = <<>>
    /\ n429 = 0
    /\ lastExchange = NoExchange
    /\ op = "none"
    /\ pc = "idle"
    /\ d \in ValidateData
    /\ todo = {}
    /\ requests = <<>>
    /\ diags = NilErr
    /\ response = NoResponse
    /\ imported = <<>>
    /\ remote = NoRemote
    /\ run = 0
    /\ logged = <<>>
    /\ peer = NoPeer
    /\ slept = <<>>

\* a create handler is called only with a configuration that passed
ValidatedAddressesCreate == SchemaErrors(d) = {} /\ Create
ValidatedAddressCreate == SchemaErrors(d) = {} /\ AddressCreate
ValidatedAccountCreate == SchemaErrors(d) = {} /\ AccountCreate

NextValidate ==
    \/ ValidateReject
    \/ ValidatedAddressesCreate
    \/ ValidatedAddressCreate
    \/ ValidatedAccountCreate

SpecValidate == InitValidate /\ [][NextValidate]_vars

-----------------------------------------------------------------------------
(* Properties of the validation, under SpecValidate.                       *)

\* the configuration has an entry whose MAC is not six hex pairs separated
\* by ":" or "-", or whose description is longer than 64 characters or has
\* a character outside [a-zA-Z0-9-]
HasInvalidEntry ==
    \E e \in ConfiguredEntries(d) :
        \/ ~MatchesMacFormat(Chars(e.mac))
        \/ ~MatchesDescriptionRules(Chars(e.description))

\* C25: for each of the three resources, a configuration with an invalid
\* MAC or description never has a request issued for it, and once acted on
\* it has been rejected with a validation error.
C25_InvalidEntryRejected ==
    HasInvalidEntry =>
        /\ requests = <<>>
        /\ op # "none" => diags = ValidationError

-----------------------------------------------------------------------------
(* What the provider writes to the log about the API key.                  *)

\* longest API key explored, and the most MakeRequest calls logged
MaxKeyLen == 3
MaxLogCalls == 2

\* API keys: the non-empty strings over two characters that occur in no
\* method, URL or status text
KeyChars == {"Q", "Z"}
Keys == UNION {[1..n -> KeyChars] : n \in 1..MaxKeyLen}

\* the 25 asterisks between the first and the last character
Mask == [i \in 1..25 |-> "*"]

\* c.APIKey[:1] + "*************************" + c.APIKey[len(c.APIKey)-1:]
MaskedAPIKey(key) ==
    SubSeq(key, 1, 1) \o Mask \o SubSeq(key, Len(key), Len(key))

LogRetrieved ==
    <<"[", "D", "E", "B", "U", "G", "]", " ", "R", "e", "t", "r", "i", "e",
      "v", "e", "d", " ", "A", "P", "I", " ", "K", "e", "y", ":", " ">>
LogRequest ==
    <<"[", "D", "E", "B", "U", "G", "]", " ", "F", "u", "l", "l", " ", "A",
      "P", "I", " ", "R", "e", "q", "u", "e", "s", "t", ":", " ">>
LogResponse ==
    <<"[", "D", "E", "B", "U", "G", "]", " ", "F", "u", "l", "l", " ", "A",
      "P", "I", " ", "R", "e", "s", "p", "o", "n", "s", "e", ":", " ">>
LogFailed ==
    <<"[", "E", "R", "R", "O", "R", "]", " ", "H", "T", "T", "P", " ", "r",
      "e", "q", "u", "e", "s", "t", " ", "f", "a", "i", "l", "e", "d", ":",
      " ">>
Bearer == <<"B", "e", "a", "r", "e", "r", " ">>

\* the request log of MakeRequest: method, url, the Authorization header
\* with the masked key, and the body
RequestLogLine(c, method, endpoint) ==
    LogRequest \o method \o <<" ">> \o c.BaseURL \o endpoint \o <<" ">>
        \o Bearer \o MaskedAPIKey(c.APIKey)

\* the response log, or the log of the client.Do failure
ResponseLogLine(c, method, endpoint, x) ==
    IF x.kind = "transport"
    THEN LogFailed \o TransportErrorText(method, c.BaseURL \o endpoint, x.cause)
    ELSE LogResponse \o Status(x.code) \o <<" ", x.body>>

\* one MakeRequest call with its two log lines
MakeRequestCall ==
    /\ op = "MakeRequest"
    /\ calls < MaxLogCalls
    /\ \E x \in Exchanges :
         LET r == MakeRequest(cfg, req.method, req.endpoint, x) IN
         /\ logged' = logged \o
                <<RequestLogLine(cfg, req.method, req.endpoint),
                  ResponseLogLine(cfg, req.method, req.endpoint, x)>>
         /\ responseBody' = r.body
         /\ err' = r.err
         /\ lastExchange' = x
         /\ calls' = calls + 1
    /\ UNCHANGED <<cfg, req, rpc, attempt, backoff, sleeps, n429, peer, slept>>
    /\ UNCHANGED opVars
    /\ UNCHANGED envVars

\* the DefaultFunc of api_key in portnox.Provider: the key is read from the
\* environment, logged and returned
ProviderDefaultFunc ==
    /\ op = "Provider"
    /\ pc = "api_key"
    /\ logged' = Append(logged, LogRetrieved \o cfg.APIKey)
    /\ op' = "MakeRequest"
    /\ pc' = "call"
    /\ UNCHANGED <<cfg, d, todo, requests, diags, peer, slept>>
    /\ UNCHANGED retryVars
    /\ UNCHANGED envVars

\* the provider of package provider takes the configured key without a log
ProviderConfigure ==
    /\ op = "Provider"
    /\ pc = "configure"
    /\ op' = "MakeRequest"
    /\ pc' = "call"
    /\ UNCHANGED <<cfg, d, todo, requests, diags>>
    /\ UNCHANGED auxVars
    /\ UNCHANGED retryVars
    /\ UNCHANGED envVars

\* a provider is about to be configured with a key given in the
\* configuration or, for portnox.Provider, taken from the environment
InitLog ==
    /\ cfg \in [APIKey : Keys, BaseURL : {DefaultBaseURL},
                 Retries : {DefaultRetries},
                 RetryInterval : {DefaultRetryInterval}]
    /\ req \in RetryRequests
    /\ rpc = "idle"
    /\ attempt = 0
    /\ backoff = 0
    /\ responseBody = NilBody
    /\ err = NilErr
    /\ calls = 0
    /\ sleeps = <<>>
    /\ n429 = 0
    /\ lastExchange = NoExchange
    /\ op = "Provider"
    /\ pc \in {"api_key", "configure"}
    /\ d = NoData
    /\ todo = {}
    /\ requests = <<>>
    /\ diags = NilErr
    /\ response = NoResponse
    /\ imported = <<>>
    /\ remote = NoRemote
    /\ run = 0
    /\ logged = <<>>
    /\ peer = NoPeer
    /\ slept = <<>>

NextLog == ProviderDefaultFunc \/ ProviderConfigure \/ MakeRequestCall

SpecLog == InitLog /\ [][NextLog]_vars

-----------------------------------------------------------------------------
(* Properties of the log, under SpecLog.                                   *)

\* the line contains the whole API key
ShowsKey(line) == Contains(line, cfg.APIKey)

\* C26: no log line contains the API key in full, for a key of any length
\* from 1 on.
C26_KeyNeverLoggedInFull ==
    \A i \in DOMAIN logged : ~ShowsKey(logged[i])

-----------------------------------------------------------------------------
(* Two MakeRequestWithRetry calls running concurrently on one Config.      *)

\* mutant: the first backoff twice the configured interval
InitialBackoffDoubled(c) == c.RetryInterval * 2

\* backoff := c.RetryInterval
InitialBackoff(c) == c.RetryInterval

\* what the remote answers the second call with: success, rate limit,
\* another error status, or no answer
PeerExchanges ==
    {x \in Exchanges :
        \/ x.kind = "transport"
        \/ (x.body = "{}" /\ x.code \in {200, 429, 500})}

\* the locals of a call that has just been entered
EnteredCall(c, r) ==
    [req |-> r, rpc |-> "loop", attempt |-> 1, backoff |-> InitialBackoff(c),
     responseBody |-> NilBody, err |-> NilErr, calls |-> 0, sleeps |-> <<>>,
     n429 |-> 0, lastExchange |-> NoExchange]

\* the steps of the second call: the same loop on its own locals
PeerAttempt ==
    /\ peer.rpc = "loop"
    /\ LoopCond(peer.attempt, cfg.Retries)
    /\ \E x \in PeerExchanges :
         LET r == MakeRequest(cfg, peer.req.method, peer.req.endpoint, x) IN
         peer' = [peer EXCEPT
                    !.responseBody = r.body,
                    !.err = r.err,
                    !.calls = @ + 1,
                    !.lastExchange = x,
                    !.n429 = IF x.kind = "http" /\ x.code = 429
                             THEN @ + 1 ELSE @,
                    !.rpc = IF r.err.isNil THEN "done"
                            ELSE IF IsRetryable(r.err) THEN "sleep"
                            ELSE "done"]
    /\ UNCHANGED <<cfg, logged, slept>>
    /\ UNCHANGED retryVars
    /\ UNCHANGED opVars
    /\ UNCHANGED envVars

PeerBackoff ==
    /\ peer.rpc = "sleep"
    /\ \E j \in Jitters :
         peer' = [peer EXCEPT
                    !.sleeps = Append(@, SleepMs(peer.backoff, j)),
                    !.backoff = NextBackoff(@),
                    !.attempt = @ + 1,
                    !.rpc = "loop"]
    /\ UNCHANGED <<cfg, logged, slept>>
    /\ UNCHANGED retryVars
    /\ UNCHANGED opVars
    /\ UNCHANGED envVars

PeerExhausted ==
    /\ peer.rpc = "loop"
    /\ ~LoopCond(peer.attempt, cfg.Retries)
    /\ peer' = [peer EXCEPT !.rpc = "done"]
    /\ UNCHANGED <<cfg, logged, slept>>
    /\ UNCHANGED retryVars
    /\ UNCHANGED opVars
    /\ UNCHANGED envVars

\* two calls have just been entered on the same Config
InitConcurrent ==
    /\ cfg \in [APIKey : {<<"Q", "Z">>}, BaseURL : {DefaultBaseURL},
                 Retries : {DefaultRetries}, RetryInterval : 1..MaxInterval]
    /\ req \in RetryRequests
    /\ rpc = "loop"
    /\ attempt = 1
    /\ backoff = InitialBackoff(cfg)
    /\ responseBody = NilBody
    /\ err = NilErr
    /\ calls = 0
    /\ sleeps = <<>>
    /\ n429 = 0
    /\ lastExchange = NoExchange
    /\ op = "MakeRequestWithRetry"
    /\ pc = "call"
    /\ d = NoData
    /\ todo = {}
    /\ requests = <<>>
    /\ diags = NilErr
    /\ response = NoResponse
    /\ imported = <<>>
    /\ remote = NoRemote
    /\ run = 0
    /\ logged = <<>>
    /\ peer = EnteredCall(cfg, [method |-> MethodPOST,
                                endpoint |-> SearchEndpoint])
    /\ slept = <<>>

NextConcurrent ==
    \/ Attempt
    \/ Backoff
    \/ Exhausted
    \/ PeerAttempt
    \/ PeerBackoff
    \/ PeerExhausted

SpecConcurrent == InitConcurrent /\ [][NextConcurrent]_vars

-----------------------------------------------------------------------------
(* Properties of concurrent calls, under SpecConcurrent.                   *)

\* the locals of one call follow from the Config and from the call's own
\* sleeps alone: the k-th sleep is RetryInterval * 2^(k-1) seconds plus a
\* jitter, one sleep per attempt passed, and every attempt made one call
OwnSequence(at, bo, sl, made) ==
    /\ at = Len(sl) + 1
    /\ made \in {at - 1, at}
    /\ bo = cfg.RetryInterval * Pow2(Len(sl))
    /\ \A k \in DOMAIN sl :
          sl[k] - cfg.RetryInterval * Pow2(k - 1) * 1000 \in 0..(JitterRange - 1)

\* C27: in every interleaving of two calls on the same Config, no step
\* changes APIKey, BaseURL, Retries or RetryInterval, a step of one call
\* leaves the locals of the other unchanged, and each call's backoff
\* starts at RetryInterval and doubles with its own sleeps only.
C27_CallsIndependent ==
    /\ [](/\ OwnSequence(attempt, backoff, sleeps, calls)
          /\ OwnSequence(peer.attempt, peer.backoff, peer.sleeps, peer.calls))
    /\ [][/\ cfg' = cfg
          /\ peer' = peer \/ UNCHANGED retryVars]_vars

\* the first call has returned after two rate-limited attempts while the
\* second, rate-limited once so far, is about to sleep for the second time
C27_Witness ==
    /\ rpc = "done"
    /\ n429 = 2
    /\ Len(sleeps) = 2
    /\ err = NilErr
    /\ peer.rpc = "sleep"
    /\ peer.n429 = 2
    /\ Len(peer.sleeps) = 1
    /\ peer.backoff = cfg.RetryInterval * 2
    /\ backoff = cfg.RetryInterval * 4

-----------------------------------------------------------------------------
(* The backoff in the program's 64-bit integers.                           *)
(* A 64-bit integer is the sequence of its 16-bit words, least significant *)
(* first, in two's complement; arithmetic wraps modulo 2^64 as Go's does.  *)

\* width of Go's int and of time.Duration (int64), in bits
IntWidth == 64
\* time.Second is 1000 * 1000 * 1000 nanoseconds, time.Millisecond
\* 1000 * 1000
Thousand == 1000
Millisecond == Thousand * Thousand
\* the `retries` of the documented provider example
DocumentedRetries == 100

\* a 64-bit integer is held as four words
WordBits == IntWidth \div 4
WordBase == Pow2(WordBits)

\* the representation in w bits of a natural number below 2^31
FromNat(n, w) ==
    [i \in 1..(w \div WordBits) |->
        IF i = 1 THEN n % WordBase
        ELSE IF i = 2 THEN n \div WordBase
        ELSE 0]

\* a + b from word i on with the given carry, the last carry dropped
RECURSIVE AddFrom(_, _, _, _)
AddFrom(a, b, i, carry) ==
    IF i > Len(a) THEN <<>>
    ELSE LET t == a[i] + b[i] + carry IN
         <<t % WordBase>> \o AddFrom(a, b, i + 1, t \div WordBase)

AddWords(a, b) == AddFrom(a, b, 1, 0)

\* v * m for a natural number m below 2^15, from word i on with the given
\* carry, the last carry dropped
RECURSIVE MulFrom(_, _, _, _)
MulFrom(v, m, i, carry) ==
    IF i > Len(v) THEN <<>>
    ELSE LET t == v[i] * m + carry IN
         <<t % WordBase>> \o MulFrom(v, m, i + 1, t \div WordBase)

MulWords(v, m) == MulFrom(v, m, 1, 0)

\* v * time.Second
Seconds(v) == MulWords(MulWords(MulWords(v, Thousand), Thousand), Thousand)

\* backoff *= 2 on a 64-bit int
Double64(b) == MulWords(b, 2)

\* time.Duration(backoff)*time.Second + jitter, jitter being
\* time.Duration(rand.Intn(1000)) * time.Millisecond
SleepDuration64(b, jitterMs) ==
    AddWords(Seconds(b), FromNat(jitterMs * Millisecond, IntWidth))

\* the 429 branch in 64-bit arithmetic: sleep, double the backoff, continue
Backoff64 ==
    /\ rpc = "sleep"
    /\ \E j \in Jitters :
         LET now == [attempt |-> attempt, jitterMs |-> j,
                     duration |-> SleepDuration64(backoff, j)]
         IN  slept' = IF slept = <<>> THEN <<now>>
                      ELSE <<slept[Len(slept)], now>>
    /\ backoff' = Double64(backoff)
    /\ attempt' = attempt + 1
    /\ rpc' = "loop"
    /\ UNCHANGED <<cfg, req, responseBody, err, calls, sleeps, n429,
                   lastExchange, logged, peer>>
    /\ UNCHANGED opVars
    /\ UNCHANGED envVars

\* a call has just been entered with the documented number of retries
InitBackoff64 ==
    /\ cfg \in [BaseURL : {DefaultBaseURL}, Retries : {DocumentedRetries},
                 RetryInterval : 1..MaxInterval]
    /\ req = [method |-> MethodPOST, endpoint |-> SearchEndpoint]
    /\ rpc = "loop"
    /\ attempt = 1
    /\ backoff = FromNat(cfg.RetryInterval, IntWidth)
    /\ responseBody = NilBody
    /\ err = NilErr
    /\ calls = 0
    /\ sleeps = <<>>
    /\ n429 = 0
    /\ lastExchange = NoExchange
    /\ op = "MakeRequestWithRetry"
    /\ pc = "call"
    /\ d = NoData
    /\ todo = {}
    /\ requests = <<>>
    /\ diags = NilErr
    /\ response = NoResponse
    /\ imported = <<>>
    /\ remote = NoRemote
    /\ run = 0
    /\ logged = <<>>
    /\ peer = NoPeer
    /\ slept = <<>>

NextBackoff64 == Attempt \/ Backoff64 \/ Exhausted

SpecBackoff64 == InitBackoff64 /\ [][NextBackoff64]_vars

-----------------------------------------------------------------------------
(* Properties of the 64-bit backoff, under SpecBackoff64.                  *)

\* a width in which base * 2^(k-1) seconds never wraps for k up to the
\* retries explored
WideWidth == 3 * IntWidth

\* a two's complement number extended to WideWidth bits
IsNegative(v) == v[Len(v)] >= WordBase \div 2

SignExtend(v) ==
    [i \in 1..(WideWidth \div WordBits) |->
        IF i <= Len(v) THEN v[i]
        ELSE IF IsNegative(v) THEN WordBase - 1 ELSE 0]

\* v * 2^n without wrapping in WideWidth bits
RECURSIVE TimesPow2(_, _)
TimesPow2(v, n) == IF n = 0 THEN v ELSE TimesPow2(MulWords(v, 2), n - 1)

\* base * 2^(k-1) seconds plus the jitter, in nanoseconds, without wrapping
ExactDelay(base, k, jitterMs) ==
    AddWords(TimesPow2(Seconds(FromNat(base, WideWidth)), k - 1),
             FromNat(jitterMs * Millisecond, WideWidth))

\* a < b as two's complement numbers of the same width
LessSigned(a, b) ==
    IF IsNegative(a) # IsNegative(b) THEN IsNegative(a)
    ELSE \E i \in DOMAIN a :
            /\ a[i] < b[i]
            /\ \A j \in (i + 1)..Len(a) : a[j] = b[j]

\* C30: at every attempt k up to the configured retries, 100 included, and
\* for every base interval from 1 on, the duration passed to time.Sleep
\* after a 429, as computed in 64 bits, is base * 2^(k-1) seconds plus the
\* jitter, and is not shorter than the duration slept at attempt k-1.
C30_DelayExactAndMonotone ==
    /\ \A i \in DOMAIN slept :
          SignExtend(slept[i].duration)
              = ExactDelay(cfg.RetryInterval, slept[i].attempt,
                           slept[i].jitterMs)
    /\ Len(slept) = 2 => ~LessSigned(slept[2].duration, slept[1].duration)

-----------------------------------------------------------------------------
(* Properties of Create, under SpecLifecycle.                              *)

\* element i of an add payload is declared entry i: its Mac, its Description
\* and its Expiration, the latter present exactly when it is not empty
CarriesDeclared(whitelist, declared) ==
    /\ Len(whitelist) = Len(declared)
    /\ \A i \in DOMAIN declared :
          /\ whitelist[i].Mac = declared[i].mac_address
          /\ whitelist[i].Description = declared[i].description
          /\ declared[i].expiration = "" => whitelist[i].Expiration = Absent
          /\ declared[i].expiration # "" =>
                whitelist[i].Expiration = declared[i].expiration

\* C31: Create of the addresses resource issues exactly one request, a
\* mac-whitelist-add for the account whose entry list is the declared list
\* in declared order, Expiration sent only when not empty; when it succeeds
\* the identity is the account name and mac_addresses is the declared list
\* in the same order, and it makes no other request.
C31_CreateOneAddOfDeclared ==
    (op = "Create" /\ pc = "done") =>
        /\ Len(requests) = 1
        /\ IsAdd(requests[1])
        /\ requests[1].AccountName = d.account_name
        /\ CarriesDeclared(requests[1].MacWhiteList, d.config)
        /\ diags = NilErr =>
              /\ d.id = d.account_name
              /\ StoredList(d.mac_addresses) = d.config

\* <<02 expiring, 01 without expiration>> declared and created
C31_Witness ==
    /\ op = "Create"
    /\ pc = "done"
    /\ diags = NilErr
    /\ d.id = "test"
    /\ Len(d.config) = 2
    /\ d.config[1].mac_address = "AA:BB:CC:DD:EE:02"
    /\ d.config[1].expiration # ""
    /\ d.config[2].mac_address = "AA:BB:CC:DD:EE:01"
    /\ d.config[2].expiration = ""
    /\ requests[1].MacWhiteList[1].Expiration = d.config[1].expiration
    /\ requests[1].MacWhiteList[2].Expiration = Absent
    /\ d.mac_addresses = d.config

-----------------------------------------------------------------------------
(* Properties of what Read stores, under SpecRead.                         *)

\* C32: after every successful Read of the addresses resource,
\* mac_addresses holds at most one entry per mac_address, and only
\* mac_addresses that the list held before the read (an entry the remote
\* holds but the resource does not declare is not stored); when the list
\* was empty before the read it is empty after it.
C32_StoredWithinDeclared ==
    (op = "Read" /\ pc = "done" /\ diags = NilErr) =>
        /\ NoRepeatedMac(d.mac_addresses)
        /\ MacsOf(d.mac_addresses) \subseteq MacsOf(d.config)
        /\ d.config = <<>> => d.mac_addresses = <<>>

\* 01 declared twice, the remote holds 01 and the undeclared 03: one 01 stored
C32_Witness ==
    /\ op = "Read"
    /\ pc = "done"
    /\ diags = NilErr
    /\ Len(d.config) = 2
    /\ d.config[1].mac_address = d.config[2].mac_address
    /\ Len(response.items) = 2
    /\ response.items[1].Mac = d.config[1].mac_address
    /\ response.items[2].Mac = OutOfBandMac
    /\ Len(d.mac_addresses) = 1
    /\ d.mac_addresses[1].mac_address = d.config[1].mac_address

\* nothing declared, the remote holds two entries: nothing stored
C32_WitnessEmpty ==
    /\ op = "Read"
    /\ pc = "done"
    /\ diags = NilErr
    /\ d.config = <<>>
    /\ Len(response.items) = 2
    /\ d.mac_addresses = <<>>

-----------------------------------------------------------------------------
(* Properties of the sleeps of MakeRequestWithRetry, under SpecRetry.      *)

\* C33: a sleep is always followed by another MakeRequest call: while the
\* call runs a sleep is pending only when the loop will go round again, and
\* when MakeRequestWithRetry has returned after at least one MakeRequest
\* call the number of sleeps is that number of calls minus one, so there is
\* no sleep after the last permitted attempt was answered with 429.
C33_SleepsOneLessThanCalls ==
    /\ rpc = "sleep" => LoopCond(attempt + 1, cfg.Retries)
    /\ (rpc = "done" /\ calls > 0) => Len(sleeps) = calls - 1

\* C34: for every configured Retries, zero and negative values included,
\* MakeRequestWithRetry returns a nil error only when it made at least one
\* MakeRequest call and the last of them was answered with a status below
\* 400: it never reports success without a successful exchange.
C34_NilErrorOnlyAfterSuccess ==
    (rpc = "done" /\ err.isNil) =>
        /\ calls >= 1
        /\ Succeeded200(lastExchange)

-----------------------------------------------------------------------------
(* resourceMacAccountAddressesRead against a search answer listing any     *)
(* number of accounts.                                                     *)

\* most accounts a search answer lists
MaxAccounts == 2

\* an account of the tenant other than the one the resource names
OtherAccount == "other"

\* the accounts a search answer may list: the resource's or another, each
\* with a bare-array whitelist of at most one entry
SearchEntries ==
    {e \in RemoteEntries :
        e.Mac \in Macs /\ e.Expiration = NilValue /\ e.Description # NilValue}
SearchAccounts ==
    [AccountName : AccountNames \cup {OtherAccount},
     shape : {"array"},
     items : {<<>>} \cup {<<e>> : e \in SearchEntries}]
SearchResponses == UNION {[1..n -> SearchAccounts] : n \in 0..MaxAccounts}

\* `accounts[0]`: the body Read goes on with is the first account of the
\* answer, whatever its name
FirstAccount(accounts) ==
    [wellFormed |-> TRUE, shape |-> accounts[1].shape,
     items |-> accounts[1].items, Accounts |-> accounts]

ErrNoAccount ==
    <<"N", "o", " ", "a", "c", "c", "o", "u", "n", "t", " ", "f", "o", "u",
      "n", "d", " ", "w", "i", "t", "h", " ", "n", "a", "m", "e", " ">>

\* the whole Read handler when the answer lists at least one account
ReadAccounts ==
    ReadFrom({FirstAccount(a) : a \in SearchResponses \ {<<>>}})

\* the whole Read handler when the answer lists no account: the request,
\* then the error of `len(accounts) == 0`
ReadNoAccount ==
    /\ op = "none"
    /\ pc = "idle"
    /\ d.resource = AddressesResource
    /\ d.id # ""
    /\ d.account_name # ""
    /\ NilErr \in RetryErrors(MethodPOST, SearchEndpoint)
    /\ op' = "Read"
    /\ pc' = "done"
    /\ requests' =
         <<[method |-> MethodPOST, endpoint |-> SearchEndpoint,
            AccountName |-> Absent,
            MacWhiteList |->
                [i \in DOMAIN d.mac_addresses |->
                     ReadPayloadEntry(d.mac_addresses[i])],
            err |-> NilErr]>>
    /\ response' = [wellFormed |-> TRUE, shape |-> "absent", items |-> <<>>,
                    Accounts |-> <<>>]
    /\ diags' = Error(ErrNoAccount \o AccountTestText)
    /\ UNCHANGED auxVars
    /\ UNCHANGED <<cfg, d, todo, imported, remote, run>>
    /\ UNCHANGED retryVars

\* Read is about to be called on a stored addresses resource
InitSearch ==
    /\ cfg \in HandlerConfigs
    /\ req = NoRequest
    /\ rpc = "idle"
    /\ attempt = 0
    /\ backoff = 0
    /\ responseBody = NilBody
    /\ err = NilErr
    /\ calls = 0
    /\ sleeps = <<>>
    /\ n429 = 0
    /\ lastExchange = NoExchange
    /\ op = "none"
    /\ pc = "idle"
    /\ \E a \in AccountNames, l \in EntryLists :
         d = [resource |-> AddressesResource, id |-> a, account_name |-> a,
              config |-> l, mac_addresses |-> l, old |-> <<>>]
    /\ todo = {}
    /\ requests = <<>>
    /\ diags = NilErr
    /\ response = NoResponse
    /\ imported = <<>>
    /\ remote = NoRemote
    /\ run = 0
    /\ logged = <<>>
    /\ peer = NoPeer
    /\ slept = <<>>

NextSearch == ReadAccounts \/ ReadNoAccount

SpecSearch == InitSearch /\ [][NextSearch]_vars

-----------------------------------------------------------------------------
(* Properties of Read against such answers, under SpecSearch.              *)

\* C35: for every search answer, one listing several accounts included,
\* every entry that a successful Read of the addresses resource writes to
\* mac_addresses is an entry of an account of the answer whose name is the
\* resource's account_name; the entries of an account of another name are
\* never stored.
C35_StoredFromNamedAccount ==
    (op = "Read" /\ pc = "done" /\ diags = NilErr) =>
        \A i \in DOMAIN d.mac_addresses :
            \E k \in DOMAIN response.Accounts :
                /\ response.Accounts[k].AccountName = d.account_name
                /\ \E j \in DOMAIN response.Accounts[k].items :
                      ReadEntry(response.Accounts[k].items[j])
                          = d.mac_addresses[i]

-----------------------------------------------------------------------------
(* Properties of what Update stores, under SpecUpdate.                     *)

\* C36: after every successful Update, mac_addresses equals the declared
\* list entry for entry: the same length, and at each position the declared
\* mac_address, description and expiration, also when the declared list
\* names one mac_address more than once.
C36_UpdateStoresDeclared ==
    UpdateSucceeded =>
        /\ Len(d.mac_addresses) = Len(d.config)
        /\ \A i \in DOMAIN d.config :
              StoredEntry(d.mac_addresses[i]) = d.config[i]

-----------------------------------------------------------------------------
(* Properties of the identity after Create and Import, under SpecRead.     *)

\* C37: after every successful Create or Import of the addresses resource,
\* the import identity naming mac_addresses after the account or not, the
\* resource identity is the account name and account_name in the state is
\* that same name.
C37_IdentityIsAccountName ==
    (op \in {"Create", "Import"} /\ pc = "done" /\ diags = NilErr) =>
        /\ d.account_name \in AccountNames
        /\ d.id = d.account_name

-----------------------------------------------------------------------------
(* resourceMacAccountAddressDelete, and the creates, the deletes and the   *)
(* update of the three resources side by side.                             *)

\* mutant: the identity is cleared whatever the request returned
AfterDeleteAlways(data, e) == [data EXCEPT !.id = ""]

\* `if err != nil { return diag.FromErr(err) }; d.SetId("")`
AfterDelete(data, e) == IF e.isNil THEN [data EXCEPT !.id = ""] ELSE data

\* the whole Delete handler of the single-address resource: one remove
\* request carrying the stored entry, then the identity is cleared
AddressDelete ==
    /\ op = "none"
    /\ pc = "idle"
    /\ d.resource = AddressResource
    /\ d.id # ""
    /\ op' = "AddressDelete"
    /\ pc' = "done"
    /\ \E e \in RetryErrors(MethodDELETE, RemoveEndpoint) :
         /\ requests' =
              <<Issued(MethodDELETE, RemoveEndpoint,
                       <<[Mac |-> d.mac_address,
                          Description |-> d.description,
                          Expiration |-> IF d.expiration # ""
                                         THEN d.expiration ELSE Absent]>>, e)>>
         /\ diags' = e
         /\ d' = AfterDelete(d, e)
    /\ UNCHANGED auxVars
    /\ UNCHANGED <<cfg, todo>>
    /\ UNCHANGED retryVars
    /\ UNCHANGED envVars

\* a resource of one of the three kinds, new (no identity) or stored, on
\* which Create, Update or Delete is about to be called
ResourceData ==
    {[resource |-> AddressesResource, id |-> i, account_name |-> a,
      config |-> new, mac_addresses |-> new, old |-> old] :
        a \in AccountNames, i \in {""} \cup AccountNames,
        new \in EntryLists, old \in {<<>>} \cup {<<e>> : e \in Entries}}
    \cup AddressData
    \cup {[x EXCEPT !.id = ""] : x \in AddressData}
    \cup AccountData

InitResources ==
    /\ cfg \in HandlerConfigs
    /\ req = NoRequest
    /\ rpc = "idle"
    /\ attempt = 0
    /\ backoff = 0
    /\ responseBody = NilBody
    /\ err = NilErr
    /\ calls = 0
    /\ sleeps = <<>>
    /\ n429 = 0
    /\ lastExchange = NoExchange
    /\ op = "none"
    /\ pc = "idle"
    /\ d \in ResourceData
    /\ d.id = "" => (d.resource = AddressesResource => d.old = <<>>)
    /\ todo = {}
    /\ requests = <<>>
    /\ diags = NilErr
    /\ response = NoResponse
    /\ imported = <<>>
    /\ remote = NoRemote
    /\ run = 0
    /\ logged = <<>>
    /\ peer = NoPeer
    /\ slept = <<>>

NextResources ==
    \/ Create
    \/ UpdateEnter
    \/ UpdateRemove
    \/ UpdateNextLoop
    \/ UpdateAdd
    \/ UpdateFinish
    \/ Delete
    \/ AddressCreate
    \/ AddressDelete
    \/ AccountCreate
    \/ AccountDelete

SpecResources == InitResources /\ [][NextResources]_vars

-----------------------------------------------------------------------------
(* Properties of the handlers on error, under SpecResources.               *)

Creates == {"Create", "AddressCreate", "AccountCreate"}
Deletes == {"Delete", "AddressDelete", "AccountDelete"}
Failed == pc = "done" /\ ~diags.isNil

\* C38: a handler that returns an error leaves the local state as it was.
\* After a Create whose request failed the identity is unset, after a Delete
\* whose request failed the identity is still set, and after an Update one
\* of whose requests failed mac_addresses is the list it was on entry; no
\* step that ends with an error diagnostic changes the resource data. This
\* holds for the addresses, the single-address and the account resource.
C38_ErrorLeavesState ==
    /\ [](Failed =>
            /\ op \in Creates => d.id = ""
            /\ op \in Deletes => d.id # ""
            /\ op = "Update" => d.mac_addresses = d.config)
    /\ [][~diags'.isNil => d' = d]_vars

\* the remove request of a single-address Delete failed: identity kept
C38_Witness ==
    /\ op = "AddressDelete"
    /\ Failed
    /\ ~requests[1].err.isNil
    /\ d.id = d.account_name \o ":" \o d.mac_address

\* an Update whose first remove succeeded and whose second request failed
C38_WitnessUpdate ==
    /\ op = "Update"
    /\ Failed
    /\ Len(requests) = 2
    /\ requests[1].err.isNil
    /\ d.old # <<>>
    /\ d.mac_addresses = d.config

\* a Create of the account resource whose request failed
C38_WitnessCreate ==
    /\ op = "AccountCreate"
    /\ Failed
    /\ d.id = ""

-----------------------------------------------------------------------------
(* Termination: MakeRequestWithRetry and the handlers of the addresses     *)
(* resource under fair scheduling. Every MakeRequest call and every sleep  *)
(* finishes, and a handler that has been entered keeps running: each step  *)
(* of the retry loop and of Update that stays enabled is eventually taken. *)
(* When a handler is called is left to the caller.                         *)

InitTerminate == InitRetry \/ InitLifecycle

NextTerminate ==
    \/ Attempt
    \/ Backoff
    \/ Exhausted
    \/ Create
    \/ UpdateEnter
    \/ UpdateRemove
    \/ UpdateNextLoop
    \/ UpdateAdd
    \/ UpdateFinish
    \/ Delete

SpecTerminate ==
    /\ InitTerminate
    /\ [][NextTerminate]_vars
    /\ WF_vars(Attempt)
    /\ WF_vars(Backoff)
    /\ WF_vars(Exhausted)
    /\ WF_vars(UpdateRemove)
    /\ WF_vars(UpdateNextLoop)
    /\ WF_vars(UpdateAdd)
    /\ WF_vars(UpdateFinish)

-----------------------------------------------------------------------------
(* Properties of termination, under SpecTerminate.                         *)

C39_WitnessUpdate ==
    /\ op = "Update"
    /\ pc = "done"
    /\ diags = NilErr
    /\ Len(requests) = 2
    /\ IsRemove(requests[1])
    /\ IsAdd(requests[2])
====
